---------------------------- MODULE Spec2Model ----------------------------
(***************************************************************************)
(* A model of the crawl-to-index pipeline of arbot_demo.                   *)
(*                                                                         *)
(* Part 1: EnhancedArboDentalCrawler (data_preparation/enhanced_crawler.py)*)
(* Strings are TLA+ strings, that is sequences of characters: Len, SubSeq  *)
(* and \o are the Python len, slice and +.                                 *)
(***************************************************************************)
EXTENDS Integers, Sequences, FiniteSets, TLC

(***************************************************************************)
(* Python str helpers                                                      *)
(***************************************************************************)

\* s.startswith(p)
StartsWith(s, p) == Len(p) <= Len(s) /\ SubSeq(s, 1, Len(p)) = p

\* s.endswith(p)
EndsWith(s, p) == Len(p) <= Len(s) /\ SubSeq(s, Len(s) - Len(p) + 1, Len(s)) = p

\* p in s
Contains(s, p) == \E i \in 1..(Len(s) - Len(p) + 1) : SubSeq(s, i, i + Len(p) - 1) = p

\* s.find(p) + 1, 0 when p does not occur
Find(s, p) ==
    IF Contains(s, p)
    THEN CHOOSE i \in 1..(Len(s) - Len(p) + 1) :
            /\ SubSeq(s, i, i + Len(p) - 1) = p
            /\ \A j \in 1..(i - 1) : SubSeq(s, j, j + Len(p) - 1) # p
    ELSE 0

\* the first position of s holding one of the characters of the set cs, Len(s)+1 when none
FirstOf(s, cs) ==
    IF \E i \in 1..Len(s) : SubSeq(s, i, i) \in cs
    THEN CHOOSE i \in 1..Len(s) :
            /\ SubSeq(s, i, i) \in cs
            /\ \A j \in 1..(i - 1) : SubSeq(s, j, j) \notin cs
    ELSE Len(s) + 1

UpperChars == "ABCDEFGHIJKLMNOPQRSTUVWXYZ"
LowerChars == "abcdefghijklmnopqrstuvwxyz"

\* c.lower(), for every upper-case character c
LowerOf == [c \in {SubSeq(UpperChars, k, k) : k \in 1..26} |->
                SubSeq(LowerChars, Find(UpperChars, c), Find(UpperChars, c))]

LowerChar(c) == IF c \in DOMAIN LowerOf THEN LowerOf[c] ELSE c

RECURSIVE LowerFrom(_, _)
\* s[k-1:].lower()
LowerFrom(s, k) ==
    IF k > Len(s) THEN "" ELSE LowerChar(SubSeq(s, k, k)) \o LowerFrom(s, k + 1)

\* s.lower()
Lower(s) == LowerFrom(s, 1)

Whitespace == {" ", "\n", "\t"}

RECURSIVE LStrip(_)
LStrip(s) ==
    IF Len(s) > 0 /\ SubSeq(s, 1, 1) \in Whitespace THEN LStrip(SubSeq(s, 2, Len(s))) ELSE s

RECURSIVE RStrip(_)
RStrip(s) ==
    IF Len(s) > 0 /\ SubSeq(s, Len(s), Len(s)) \in Whitespace
    THEN RStrip(SubSeq(s, 1, Len(s) - 1))
    ELSE s

\* s.strip()
Strip(s) == LStrip(RStrip(s))

\* x in list
InSeq(x, list) == \E i \in 1..Len(list) : list[i] = x

(***************************************************************************)
(* urllib.parse, for the URL shapes the crawler meets: absolute URLs       *)
(* scheme://netloc/path?query#fragment and relative references.            *)
(***************************************************************************)

\* s up to the first character of the set cs, all of s when none occurs
Before(s, cs) == SubSeq(s, 1, FirstOf(s, cs) - 1)

\* s from the first character of the set cs on, "" when none occurs
From(s, cs) == SubSeq(s, FirstOf(s, cs), Len(s))

\* s after the first character of the set cs, "" when none occurs
After(s, cs) == SubSeq(s, FirstOf(s, cs) + 1, Len(s))

\* the scheme://netloc/path part of a URL
Hier(url) == Before(url, {"?", "#"})

SchemeOf(hier) == IF Contains(hier, "://") THEN SubSeq(hier, 1, Find(hier, "://") - 1) ELSE ""

AfterScheme(hier) ==
    IF Contains(hier, "://") THEN SubSeq(hier, Find(hier, "://") + 3, Len(hier)) ELSE hier

NetlocOf(hier) == IF Contains(hier, "://") THEN Before(AfterScheme(hier), {"/"}) ELSE ""

PathOf(hier) == IF Contains(hier, "://") THEN From(AfterScheme(hier), {"/"}) ELSE hier

\* urlparse(url): scheme, netloc, path, query, fragment
urlparse(url) ==
    [scheme   |-> SchemeOf(Hier(url)),
     netloc   |-> NetlocOf(Hier(url)),
     path     |-> PathOf(Hier(url)),
     query    |-> After(Before(url, {"#"}), {"?"}),
     fragment |-> After(url, {"#"})]

\* urlunparse((scheme, netloc, path, '', query, fragment))
urlunparse(scheme, netloc, path, query, fragment) ==
    (IF scheme = "" THEN "" ELSE scheme \o "://") \o netloc \o path
        \o (IF query = "" THEN "" ELSE "?" \o query)
        \o (IF fragment = "" THEN "" ELSE "#" \o fragment)

RECURSIVE DirOf(_)
\* a path up to and including its last "/"
DirOf(path) ==
    IF Len(path) = 0 \/ SubSeq(path, Len(path), Len(path)) = "/"
    THEN path
    ELSE DirOf(SubSeq(path, 1, Len(path) - 1))

\* urljoin, on the parsed base b and the parsed reference r
Join(base, ref, b, r) ==
    IF ref = "" THEN base
    ELSE IF r.scheme # "" THEN ref
    ELSE IF SubSeq(ref, 1, 1) = "/" THEN urlunparse(b.scheme, b.netloc, r.path, r.query, r.fragment)
    ELSE IF r.path = "" THEN
        urlunparse(b.scheme, b.netloc, b.path,
                   IF r.query = "" THEN b.query ELSE r.query, r.fragment)
    ELSE urlunparse(b.scheme, b.netloc,
                    (IF DirOf(b.path) = "" THEN "/" ELSE DirOf(b.path)) \o r.path,
                    r.query, r.fragment)

\* urljoin(base, ref)
urljoin(base, ref) == Join(base, ref, urlparse(base), urlparse(ref))

(***************************************************************************)
(* Fetched documents.  A document is what BeautifulSoup makes of a         *)
(* response body: an optional <html lang>, an optional <title>, an         *)
(* optional <meta name="description">, the anchors' href attributes in     *)
(* document order, and the body's elements in document order.  An element  *)
(* has a tag name, a class attribute, its parent (0: none, else the index  *)
(* of the enclosing element) and its own text nodes, inline markup such as *)
(* <b> flattened into them: <p>Call <b>us</b> now</p> has the text nodes   *)
(* "Call ", "us", " now".                                                  *)
(***************************************************************************)

NoTag == "<absent>"

El(name, cls, parent, nodes) == [name |-> name, cls |-> cls, parent |-> parent, nodes |-> nodes]

RECURSIVE IsInside(_, _, _)
\* element j lies inside element i
IsInside(body, i, j) ==
    /\ j > i
    /\ body[j].parent # 0
    /\ (body[j].parent = i \/ IsInside(body, i, body[j].parent))

RECURSIVE StringsFrom(_, _, _)
\* the text nodes of element i and of the elements inside it, from index k on
StringsFrom(body, i, k) ==
    IF k > Len(body) THEN <<>>
    ELSE (IF k = i \/ IsInside(body, i, k) THEN body[k].nodes ELSE <<>>)
            \o StringsFrom(body, i, k + 1)

RECURSIVE StringsAll(_, _)
\* the text nodes of all elements from index k on
StringsAll(body, k) ==
    IF k > Len(body) THEN <<>> ELSE body[k].nodes \o StringsAll(body, k + 1)

RECURSIVE JoinStripped(_)
\* "".join(s.strip() for s in strings if s.strip())
JoinStripped(strings) ==
    IF strings = <<>> THEN "" ELSE Strip(Head(strings)) \o JoinStripped(Tail(strings))

RECURSIVE JoinRaw(_)
\* "".join(strings)
JoinRaw(strings) ==
    IF strings = <<>> THEN "" ELSE Head(strings) \o JoinRaw(Tail(strings))

\* tag.get_text(strip=True): every text node stripped on its own, then joined
get_text_strip(body, i) == JoinStripped(StringsFrom(body, i, i))

\* tag.get_text()
get_text(body, i) == JoinRaw(StringsFrom(body, i, i))

\* soup.find(name): the index of the first element with that tag name, 0 when none
find(body, names) ==
    IF \E i \in 1..Len(body) : body[i].name \in names
    THEN CHOOSE i \in 1..Len(body) :
            body[i].name \in names /\ \A j \in 1..(i - 1) : body[j].name \notin names
    ELSE 0

\* the stripped text of element i, "" when i = 0 (no such element)
TextAt(body, i) == IF i = 0 THEN "" ELSE get_text_strip(body, i)

\* _extract_title
_extract_title(doc) ==
    IF doc.has_title THEN JoinStripped(doc.title)
    ELSE TextAt(doc.body, find(doc.body, {"h1"}))

TextTags == {"h1", "h2", "h3", "h4", "h5", "h6", "p", "li"}

\* the minimum text length of a content block
MinTextLen == 10

\* _extract_content, line 199: the test that keeps a text block
KeepText(text) == text # "" /\ Len(text) > MinTextLen

\* _extract_content, lines 199-203: the block of a tag with that text, if any
TextBlock(name, text) == IF KeepText(text) THEN <<[type |-> name, text |-> text]>> ELSE <<>>

RECURSIVE TextBlocks(_, _)
\* _extract_content, lines 197-203: the heading/paragraph/list-item blocks from element k on
TextBlocks(body, k) ==
    IF k > Len(body) THEN <<>>
    ELSE (IF body[k].name \in TextTags THEN TextBlock(body[k].name, get_text_strip(body, k))
          ELSE <<>>) \o TextBlocks(body, k + 1)

\* any(keyword in s for keyword in keywords)
ContainsAny(s, keywords) == \E k \in 1..Len(keywords) : Contains(s, keywords[k])

\* 1, 2, ..., Len(body): the elements in document order
Indices(body) == [k \in 1..Len(body) |-> k]

\* soup.find_all(names): the indices of the elements with one of the tag names
find_all(body, names) == SelectSeq(Indices(body), LAMBDA k : body[k].name \in names)

\* tag.find_next_sibling(): the next element with the same parent, 0 when none
find_next_sibling(body, j) ==
    IF \E k \in (j + 1)..Len(body) : body[k].parent = body[j].parent
    THEN CHOOSE k \in (j + 1)..Len(body) :
            /\ body[k].parent = body[j].parent
            /\ \A m \in (j + 1)..(k - 1) : body[m].parent # body[j].parent
    ELSE 0

\* _extract_team_info, line 225: re.compile(r'team|staff', re.I) on the class attribute
IsTeamClass(cls) == Contains(Lower(cls), "team") \/ Contains(Lower(cls), "staff")

member_keywords == <<"dr.", "doctor", "christina", "carol", "guadalupe", "gem">>

\* _extract_team_info, lines 233-237
BioOf(body, next_elem) ==
    IF next_elem # 0 /\ body[next_elem].name \in {"p", "li"}
    THEN get_text_strip(body, next_elem)
    ELSE ""

\* _extract_team_info, lines 231-243: the entry of one heading of a team section, if any
MemberEntry(body, member, member_text) ==
    IF member_text # "" /\ ContainsAny(Lower(member_text), member_keywords)
    THEN <<[name |-> member_text,
            bio  |-> BioOf(body, find_next_sibling(body, member)),
            type |-> "team_member"]>>
    ELSE <<>>

RECURSIVE MemberEntries(_, _)
\* _extract_team_info, lines 230-243
MemberEntries(body, members) ==
    IF members = <<>> THEN <<>>
    ELSE MemberEntry(body, Head(members), get_text_strip(body, Head(members)))
            \o MemberEntries(body, Tail(members))

\* _extract_team_info, line 229: section.find_all(['h3', 'h4', 'h5', 'h6'])
HeadingsIn(body, section) ==
    SelectSeq(Indices(body),
              LAMBDA j : IsInside(body, section, j) /\ body[j].name \in {"h3", "h4", "h5", "h6"})

RECURSIVE TeamInfo(_, _)
\* _extract_team_info, lines 227-243
TeamInfo(body, sections) ==
    IF sections = <<>> THEN <<>>
    ELSE MemberEntries(body, HeadingsIn(body, Head(sections))) \o TeamInfo(body, Tail(sections))

\* lines 245-250
TeamSection(team_info) ==
    IF team_info # <<>> THEN <<[type |-> "team_section", data |-> team_info]>> ELSE <<>>

\* _extract_team_info: the team_section block in a list, the empty list for None
_extract_team_info(doc) ==
    TeamSection(TeamInfo(doc.body,
                         SelectSeq(Indices(doc.body),
                                   LAMBDA i : doc.body[i].name = "div"
                                              /\ IsTeamClass(doc.body[i].cls))))

Digits == {"0", "1", "2", "3", "4", "5", "6", "7", "8", "9"}
Letters == {SubSeq(UpperChars, k, k) : k \in 1..26} \cup {SubSeq(LowerChars, k, k) : k \in 1..26}

\* the characters of s from position i to j all lie in the set cs
AllIn(s, i, j, cs) == \A k \in i..j : SubSeq(s, k, k) \in cs

\* a regular expression as a sequence of items: n characters of the class cs, optional or not
Item(opt, cs, n) == [opt |-> opt, cs |-> cs, n |-> n]

\* a if the match a succeeded (a position), else b
OrElse(a, b) == IF a # 0 THEN a ELSE b

RECURSIVE MatchFrom(_, _, _)
\* the position after the match of the items at position pos of s, 0 when there is none;
\* an optional item is taken when the rest then matches (greedy, with backtracking)
MatchFrom(s, pos, items) ==
    IF items = <<>> THEN pos
    ELSE OrElse(IF pos + Head(items).n - 1 <= Len(s)
                   /\ AllIn(s, pos, pos + Head(items).n - 1, Head(items).cs)
                THEN MatchFrom(s, pos + Head(items).n, Tail(items))
                ELSE 0,
                IF Head(items).opt THEN MatchFrom(s, pos, Tail(items)) ELSE 0)

\* _extract_contact_info, line 257: \(?\d{3}\)?[\s.-]?\d{3}[\s.-]?\d{4}
phone_pattern ==
    << Item(TRUE, {"("}, 1), Item(FALSE, Digits, 3), Item(TRUE, {")"}, 1),
       Item(TRUE, Whitespace \cup {".", "-"}, 1), Item(FALSE, Digits, 3),
       Item(TRUE, Whitespace \cup {".", "-"}, 1), Item(FALSE, Digits, 4) >>

\* the first match of the items in s: re.findall(pattern, s)[0], "" when there is none
FirstMatchAt(s, i, items) == SubSeq(s, i, MatchFrom(s, i, items) - 1)

FirstMatch(s, items) ==
    IF \E i \in 1..Len(s) : MatchFrom(s, i, items) # 0
    THEN FirstMatchAt(s, CHOOSE i \in 1..Len(s) :
                            /\ MatchFrom(s, i, items) # 0
                            /\ \A j \in 1..(i - 1) : MatchFrom(s, j, items) = 0,
                      items)
    ELSE ""

WordChars == Letters \cup Digits \cup {"_"}

\* \b at position i of s: between s[i-1] and s[i], exactly one is a word character
WordBoundary(s, i) ==
    (i > 1 /\ SubSeq(s, i - 1, i - 1) \in WordChars)
        # (i <= Len(s) /\ SubSeq(s, i, i) \in WordChars)

EmailLocal == Letters \cup Digits \cup {".", "_", "%", "+", "-"}
EmailDomain == Letters \cup Digits \cup {".", "-"}
EmailTld == Letters \cup {"|"}

\* _extract_contact_info, line 263: \b[A-Za-z0-9._%+-]+@[A-Za-z0-9.-]+\.[A-Z|a-z]{2,}\b
\* matches s[i..e]: a local part up to an "@" at a, a domain up to a "." at d, a suffix to e
EmailMatches(s, i, a, d, e) ==
    /\ WordBoundary(s, i)
    /\ i < a /\ AllIn(s, i, a - 1, EmailLocal)
    /\ SubSeq(s, a, a) = "@"
    /\ a + 1 < d /\ AllIn(s, a + 1, d - 1, EmailDomain)
    /\ SubSeq(s, d, d) = "."
    /\ d + 2 <= e /\ e <= Len(s) /\ AllIn(s, d + 1, e, EmailTld)
    /\ WordBoundary(s, e + 1)

\* the positions of the character c in s
PositionsOf(s, c) == {k \in 1..Len(s) : SubSeq(s, k, k) = c}

\* the (a, d, e) with which the pattern matches at i
EmailMatchesAt(s, i) ==
    {m \in PositionsOf(s, "@") \X PositionsOf(s, ".") \X (1..Len(s)) :
        EmailMatches(s, i, m[1], m[2], m[3])}

EmailFrom(s, i) == EmailMatchesAt(s, i) # {}

\* the greedy match among the matches ms: the last "." that works, then the longest suffix
GreedyEnd(ms) ==
    (CHOOSE m \in ms : \A m2 \in ms : m2[2] < m[2] \/ (m2[2] = m[2] /\ m2[3] <= m[3]))[3]

\* the end of the greedy match from i
EmailEnd(s, i) == GreedyEnd(EmailMatchesAt(s, i))

FirstEmailAt(s, i) == SubSeq(s, i, EmailEnd(s, i))

FirstEmail(s) ==
    IF \E i \in 1..Len(s) : EmailFrom(s, i)
    THEN FirstEmailAt(s, CHOOSE i \in 1..Len(s) :
                            EmailFrom(s, i) /\ \A j \in 1..(i - 1) : ~EmailFrom(s, j))
    ELSE ""

address_keywords == <<"holland st", "bradford", "on", "l3z">>

RECURSIVE FirstAddress(_, _)
\* _extract_contact_info, lines 270-275
FirstAddress(body, tags) ==
    IF tags = <<>> THEN ""
    ELSE IF ContainsAny(Lower(get_text_strip(body, Head(tags))), address_keywords)
    THEN get_text_strip(body, Head(tags))
    ELSE FirstAddress(body, Tail(tags))

\* soup.get_text(): every text node of the document
DocText(doc) == JoinRaw(doc.title) \o JoinRaw(StringsAll(doc.body, 1))

\* the dict with the keys whose values are not ""
DictOf(pairs) == [k \in {q \in DOMAIN pairs : pairs[q] # ""} |-> pairs[k]]

\* lines 280-285
ContactSection(contact_info) ==
    IF DOMAIN contact_info # {} THEN <<[type |-> "contact_info", data |-> contact_info]>>
    ELSE <<>>

\* _extract_contact_info: the contact_info block in a list, the empty list for None
_extract_contact_info(doc) ==
    ContactSection(DictOf([phone   |-> FirstMatch(DocText(doc), phone_pattern),
                           email   |-> FirstEmail(DocText(doc)),
                           address |-> FirstAddress(doc.body,
                                                    find_all(doc.body, {"p", "div", "span"}))]))

service_keywords ==
    <<"dental", "cleaning", "implant", "crown", "filling", "whitening", "orthodontics">>

\* the bounds of a service description's length, line 297
MinServiceLen == 20
MaxServiceLen == 500

\* _extract_services_info, lines 296-298
ServiceOf(text) ==
    IF ContainsAny(Lower(text), service_keywords)
       /\ Len(text) > MinServiceLen /\ Len(text) < MaxServiceLen
    THEN <<text>>
    ELSE <<>>

RECURSIVE Services(_, _)
\* _extract_services_info, lines 294-298
Services(body, tags) ==
    IF tags = <<>> THEN <<>>
    ELSE ServiceOf(get_text_strip(body, Head(tags))) \o Services(body, Tail(tags))

\* lines 300-305
ServicesSection(services) ==
    IF services # <<>> THEN <<[type |-> "services", data |-> services]>> ELSE <<>>

\* _extract_services_info: the services block in a list, the empty list for None
_extract_services_info(doc) ==
    ServicesSection(Services(doc.body, find_all(doc.body, {"p", "li", "div"})))

\* _extract_content
_extract_content(doc) ==
    TextBlocks(doc.body, 1) \o _extract_team_info(doc) \o _extract_contact_info(doc)
        \o _extract_services_info(doc)

\* _extract_metadata
_extract_metadata(doc) ==
    LET desc == IF doc.meta # NoTag THEN [description |-> doc.meta] ELSE <<>>
        lang == IF doc.html THEN [language |-> IF doc.lang # NoTag THEN doc.lang ELSE "en"]
                ELSE <<>>
    IN  [k \in (DOMAIN desc) \cup (DOMAIN lang) |->
            IF k \in DOMAIN desc THEN desc[k] ELSE lang[k]]

(***************************************************************************)
(* The crawler's environment: the seed URLs and page caps it is built      *)
(* with, and what the site answers.                                        *)
(***************************************************************************)

Site == "https://arbodentalcare.com"

\* base_url: the default of __init__, and the same origin written without the final "/"
Seeds == {Site \o "/", Site}

\* the largest max_pages the crawler is built with
MaxPagesBound == 2

\* how many times crawl_site is called on one crawler
MaxRuns == 2

Doc(html, lang, has_title, title, meta, anchors, body) ==
    [html |-> html, lang |-> lang, has_title |-> has_title, title |-> title,
     meta |-> meta, anchors |-> anchors, body |-> body]

DocHome ==
    Doc(TRUE, "en-CA", TRUE, <<" Arbo Dental Care\n">>, "Family dentistry in Bradford",
        <<"/about", Site \o "/team#top", "/files/menu.pdf", "/about?ref=home">>,
        << El("h1", "", 0, <<"Welcome to Arbo Dental">>),
           El("p", "", 0, <<"Call ", "us", " now">>),
           El("li", "", 0, <<" Short one ">>),
           El("p", "", 0, <<"  Open daily \n">>),
           El("p", "", 0, <<"Phone: (905) 775-7377 ", "info@arbodentalcare.com">>) >>)

DocAbout ==
    Doc(FALSE, NoTag, FALSE, <<>>, NoTag,
        <<Site \o "/", "team", "http://arbodentalcare.com/about", "https://other.com/",
          Site \o ".evil.com/">>,
        << El("h1", "", 0, <<"About us">>),
           El("ul", "", 0, <<>>),
           El("li", "", 2, <<"Gentle Dental cleaning">>),
           El("li", "", 2, <<"Crowns">>),
           El("div", "Team-Grid", 0, <<>>),
           El("h3", "", 5, <<"Dr. Christina">>),
           El("p", "", 5, <<"Leads the office">>),
           El("h4", "", 5, <<"Reception">>),
           El("h3", "", 5, <<"Carol">>) >>)

Docs == {DocHome, DocAbout}

\* a sitemap's tags as soup.find_all(['url', 'loc']) yields them: a <url> tag with the
\* text of its first <loc> child (NoTag: none), and every <loc> tag with its text
SmTag(name, loc) == [name |-> name, loc |-> loc]

SitemapMain ==
    << SmTag("url", " " \o Site \o "/\n"), SmTag("loc", " " \o Site \o "/\n"),
       SmTag("url", Site \o "/about"),     SmTag("loc", Site \o "/about"),
       SmTag("url", NoTag) >>

SitemapFiles ==
    << SmTag("url", Site \o "/files/menu.pdf?v=2"), SmTag("loc", Site \o "/files/menu.pdf?v=2"),
       SmTag("loc", Site \o "/team"),
       SmTag("loc", "https://other.com/x"),
       SmTag("loc", Site \o "/sitemap1.xml") >>

\* what a sitemap URL answers: a status code and the tags of the body
SitemapResponses ==
    {[status_code |-> 404, tags |-> <<>>],
     [status_code |-> 200, tags |-> SitemapMain],
     [status_code |-> 200, tags |-> SitemapFiles]}

\* what robots.txt answers: a status code and the lines of the body
RobotsResponses ==
    {[status_code |-> 404, lines |-> <<>>],
     [status_code |-> 200,
      lines |-> <<"User-agent: *", "Sitemap: " \o Site \o "/sitemap_index.xml">>]}

\* discover_sitemap, lines 43-48
common_sitemaps == <<"/sitemap.xml", "/sitemap_index.xml", "/sitemap1.xml", "/sitemap.php">>

\* which of the common sitemap locations answer 200
CommonResponses == {{}, {1}}

(***************************************************************************)
(* State                                                                   *)
(***************************************************************************)
VARIABLES
    base_url,       \* self.base_url
    max_pages,      \* self.max_pages
    scraped_data,   \* self.scraped_data
    visited_urls,   \* self.visited_urls
    url_queue,      \* self.url_queue
    sitemap_urls,   \* self.sitemap_urls
    pc,             \* where crawl_site is: "ready", "seeding", "crawling", "returned"
    sm_i,           \* crawl_site's for loop: the index of the next sitemap to parse
    runs,           \* calls of crawl_site so far
    fetched,        \* history: how many times scrape_page's session.get ran, per URL
    enqueued,       \* history: how many times a URL was appended to url_queue, per URL
    run_fetches,    \* history: page fetches of the current crawl_site call
    site,           \* the site as met so far: what robots.txt and the common locations
                    \* answered, and what each sitemap URL answered
    failed,         \* history: the URLs whose scrape_page took the except branch
    sources,        \* history: for each record of scraped_data, the document it was
                    \* extracted from and the visited set discover_links saw
    last            \* history: what the last step did

crawl_vars == <<base_url, max_pages, scraped_data, visited_urls, url_queue, sitemap_urls,
                pc, sm_i, runs, fetched, enqueued, run_fetches, site, failed, sources, last>>

\* The knowledge base of knowledge_base.py: one ArboDentalKnowledgeBase object at a time
\* over one persist directory.
VARIABLES
    store,          \* the collection "arbo_dental_knowledge" of the persist directory:
                    \* whether it exists, its distance metric and its records by id
    handle,         \* self.collection: "live" while it refers to the collection that
                    \* exists, "deleted" once that collection is gone
    hash_seed,      \* the seed of str.__hash__ of the running Python process
    index_calls,    \* calls of add_to_knowledge_base so far
    kb_last         \* history: what the last operation on the knowledge base did

kb_vars == <<store, handle, hash_seed, index_calls, kb_last>>

VARIABLES
    agent,          \* the module-level agent of the serving module: None, or the
                    \* serial number of the agent object it refers to
    agents_made,    \* history: the agent objects constructed so far
    kbs_made,       \* history: the knowledge-base clients constructed so far
    entry,          \* the serving module loaded: app.py, chat_original.py or chat.py
    requests,       \* per worker thread: where its request is and its local values
    web_last        \* history: what the last step of a request did

web_vars == <<entry, agent, agents_made, kbs_made, requests, web_last>>

VARIABLES
    rb_pc,          \* where main of rebuild_knowledge_base.py is
    data_file,      \* the local data_file of main
    files,          \* the JSON files of the data directory, by path
    rb_runs,        \* calls of main so far
    rb_log          \* history: the steps of the current call of main, in order

rebuild_vars == <<rb_pc, data_file, files, rb_runs, rb_log>>

\* what the crawler and the knowledge base leave alone
serving_vars == <<web_vars, rebuild_vars>>

vars == <<crawl_vars, kb_vars, web_vars, rebuild_vars>>

\* Python's None, among the serial numbers of the agent objects, which start at 1
None == 0

\* a local that is not bound yet
Unbound == ""

\* no serving module is loaded
NoWeb ==
    /\ entry = "none"
    /\ agent = None
    /\ agents_made = 0
    /\ kbs_made = 0
    /\ requests = <<>>
    /\ web_last = [op |-> "none"]

\* main of rebuild_knowledge_base.py is not run
NoRebuild ==
    /\ rb_pc = "none"
    /\ data_file = Unbound
    /\ files = <<>>
    /\ rb_runs = 0
    /\ rb_log = <<>>

\* no knowledge base object is constructed while the crawler runs
NoKnowledgeBase ==
    /\ store = [exists |-> FALSE, space |-> "", records |-> <<>>]
    /\ handle = "none"
    /\ hash_seed = 0
    /\ index_calls = 0
    /\ kb_last = [op |-> "none"]

\* one more occurrence of u in the history count h
Count(h, u) == IF u \in DOMAIN h THEN h[u] ELSE 0
Bump(h, u) == [v \in (DOMAIN h) \cup {u} |-> IF v = u THEN Count(h, u) + 1 ELSE h[v]]

\* the function f with k mapped to v
Bind(f, k, v) == [j \in (DOMAIN f) \cup {k} |-> IF j = k THEN v ELSE f[j]]

\* one more occurrence in the history count h for each member of the sequence us
BumpAll(h, us) ==
    [v \in (DOMAIN h) \cup {us[k] : k \in 1..Len(us)} |->
        Count(h, v) + Cardinality({k \in 1..Len(us) : us[k] = v})]

(***************************************************************************)
(* discover_sitemap                                                        *)
(***************************************************************************)

\* line.split(':', 1)[1].strip()
AfterColon(line) == Strip(SubSeq(line, Find(line, ":") + 1, Len(line)))

RECURSIVE RobotsSitemaps(_)
\* lines 34-37
RobotsSitemaps(lines) ==
    IF lines = <<>> THEN <<>>
    ELSE (IF Contains(Lower(Head(lines)), "sitemap:") THEN <<AfterColon(Head(lines))>> ELSE <<>>)
            \o RobotsSitemaps(Tail(lines))

RECURSIVE CommonSitemaps(_, _, _)
\* lines 50-58
CommonSitemaps(base, answering, k) ==
    IF k > Len(common_sitemaps) THEN <<>>
    ELSE (IF k \in answering THEN <<urljoin(base, common_sitemaps[k])>> ELSE <<>>)
            \o CommonSitemaps(base, answering, k + 1)

\* the sitemap URLs one call of discover_sitemap appends to self.sitemap_urls
discover_sitemap(base, robots, answering) ==
    (IF robots.status_code = 200 THEN RobotsSitemaps(robots.lines) ELSE <<>>)
        \o CommonSitemaps(base, answering, 1)

(***************************************************************************)
(* parse_sitemap                                                           *)
(***************************************************************************)

RECURSIVE SitemapLocs(_)
\* lines 73-79: the urls list
SitemapLocs(tags) ==
    IF tags = <<>> THEN <<>>
    ELSE (IF Head(tags).loc # NoTag THEN <<Strip(Head(tags).loc)>> ELSE <<>>)
            \o SitemapLocs(Tail(tags))

\* lines 73-79 for every answer of the site: the URLs a parsed sitemap lists
Listed == [response \in SitemapResponses |->
              IF response.status_code = 200 THEN SitemapLocs(response.tags) ELSE <<>>]

\* the filter of line 84 without its visited test
SitemapKeepsVisited(url, visited) == Contains(url, "arbodentalcare.com")

\* line 84: the filter on a sitemap's URLs
SitemapKeeps(url, visited) == Contains(url, "arbodentalcare.com") /\ url \notin visited

RECURSIVE FilterSitemap(_, _)
\* lines 82-85
FilterSitemap(urls, visited) ==
    IF urls = <<>> THEN <<>>
    ELSE (IF SitemapKeeps(Head(urls), visited) THEN <<Head(urls)>> ELSE <<>>)
            \o FilterSitemap(Tail(urls), visited)

\* parse_sitemap: [] when the response is not a 200, else the filtered URLs
parse_sitemap(response, visited) ==
    IF response.status_code # 200 THEN <<>>
    ELSE FilterSitemap(Listed[response], visited)

\* line 334 without its test
SitemapAppendsAll(url, queue) == TRUE

\* crawl_site, line 334: the test that appends a sitemap URL to the queue
SitemapAppends(url, queue) == ~InSeq(url, queue)

RECURSIVE MergeSitemap(_, _)
\* crawl_site, lines 333-335: the queue after merging the URLs found
MergeSitemap(found, queue) ==
    IF found = <<>> THEN queue
    ELSE MergeSitemap(Tail(found),
                      IF SitemapAppends(Head(found), queue) THEN Append(queue, Head(found))
                      ELSE queue)

(***************************************************************************)
(* discover_links, should_crawl_url, scrape_page                           *)
(***************************************************************************)

\* discover_links, line 110
Unparsed(parsed) == urlunparse(parsed.scheme, parsed.netloc, parsed.path, "", "")

\* discover_links, lines 109-110
clean_url(absolute_url) == Unparsed(urlparse(absolute_url))

\* discover_links, line 112: the test that keeps a link
LinkKeeps(url, visited, links) == url \notin visited /\ ~InSeq(url, links)

\* discover_links, lines 112-113
AddLink(links, clean, visited) ==
    IF LinkKeeps(clean, visited, links) THEN Append(links, clean) ELSE links

\* discover_links, lines 102-110: the absolute URL of an anchor of the page at
\* current_url, whether line 107 accepts it, and its cleaned form
Anchor(current_url, href) ==
    [absolute_url |-> urljoin(current_url, href),
     on_site      |-> Contains(urljoin(current_url, href), "arbodentalcare.com"),
     clean_url    |-> clean_url(urljoin(current_url, href))]

\* the URLs the sitemaps of the site list
SitemapTargets == UNION {{u \in {sitemap.tags[k].loc : k \in 1..Len(sitemap.tags)} : u # NoTag}
                            : sitemap \in {r \in SitemapResponses : r.status_code = 200}}

\* the URLs one more link away, whatever document each URL serves
Linked(urls) ==
    urls \cup UNION {{Anchor(url, doc.anchors[k]).clean_url : k \in 1..Len(doc.anchors)}
                        : url \in urls, doc \in Docs}

RECURSIVE Closure(_)
Closure(urls) == IF Linked(urls) = urls THEN urls ELSE Closure(Linked(urls))

\* every URL a crawl of the site can come to fetch
Pages == Closure(Seeds \cup {Strip(u) : u \in SitemapTargets})

\* lines 102-110 for every anchor of every document at every URL
Anchors == [doc \in Docs |-> [url \in Pages |->
                [k \in 1..Len(doc.anchors) |-> Anchor(url, doc.anchors[k])]]]

\* discover_links, lines 107-113
AddAnchor(links, anchor, visited) ==
    IF anchor.on_site THEN AddLink(links, anchor.clean_url, visited) ELSE links

RECURSIVE LinksFrom(_, _, _, _)
\* discover_links, lines 100-113, from anchor k on
LinksFrom(anchors, k, visited, links) ==
    IF k > Len(anchors) THEN links
    ELSE LinksFrom(anchors, k + 1, visited, AddAnchor(links, anchors[k], visited))

discover_links(doc, current_url, visited) == LinksFrom(Anchors[doc][current_url], 1, visited, <<>>)

skip_extensions == <<".pdf", ".jpg", ".jpeg", ".png", ".gif", ".css", ".js", ".xml">>

\* any(s.endswith(ext) for ext in extensions)
EndsWithAny(s, extensions) == \E k \in 1..Len(extensions) : EndsWith(s, extensions[k])

\* should_crawl_url, lines 128-130
HasSkipExtension(url) == \E lower \in {Lower(url)} : EndsWithAny(lower, skip_extensions)

\* should_crawl_url, lines 133-134
IsExternal(url, base) == ~StartsWith(url, base)

\* the comparison of line 124 off by one
CapReachedOffByOne(scraped, cap) == Len(scraped) > cap

\* should_crawl_url, lines 123-125
CapReached(scraped, cap) == Len(scraped) >= cap

should_crawl_url(url) ==
    /\ url \notin visited_urls
    /\ ~CapReached(scraped_data, max_pages)
    /\ ~HasSkipExtension(url)
    /\ ~IsExternal(url, base_url)

\* scrape_page, lines 156-158: what the three extractors make of each document
Extracted ==
    [doc \in Docs |-> [title    |-> _extract_title(doc),
                       content  |-> _extract_content(doc),
                       metadata |-> _extract_metadata(doc)]]

\* the record of lines 154-160 with a content list that lives across pages
page_data_shared(doc, url, visited) ==
    [url         |-> url,
     title       |-> Extracted[doc].title,
     content     |-> (IF scraped_data = <<>> THEN <<>>
                      ELSE scraped_data[Len(scraped_data)].content) \o Extracted[doc].content,
     metadata    |-> Extracted[doc].metadata,
     links_found |-> discover_links(doc, url, visited)]

\* scrape_page, lines 154-160
page_data(doc, url, visited) ==
    [url         |-> url,
     title       |-> Extracted[doc].title,
     content     |-> Extracted[doc].content,
     metadata    |-> Extracted[doc].metadata,
     links_found |-> discover_links(doc, url, visited)]

\* scrape_page, line 166: the test that appends a discovered link to the queue
LinkAppends(link, visited, queue) == link \notin visited /\ ~InSeq(link, queue)

RECURSIVE QueueLinks(_, _, _)
\* scrape_page, lines 165-167
QueueLinks(links, visited, queue) ==
    IF links = <<>> THEN queue
    ELSE QueueLinks(Tail(links), visited,
                    IF LinkAppends(Head(links), visited, queue) THEN Append(queue, Head(links))
                    ELSE queue)

\* the except branch without line 176
MarkFailedForgets(visited, url) == visited

\* scrape_page, line 176: what the except branch does to the visited set
MarkFailed(visited, url) == visited \cup {url}

\* scrape_page without line 149
MarkVisitedForgets(visited, url) == visited

\* scrape_page, line 149: the URL is marked before its document is parsed
MarkVisited(visited, url) == visited \cup {url}

(***************************************************************************)
(* crawl_site                                                              *)
(***************************************************************************)

Init ==
    /\ base_url \in Seeds
    /\ max_pages \in 0..MaxPagesBound
    /\ scraped_data = <<>>
    /\ visited_urls = {}
    /\ url_queue = <<base_url>>
    /\ sitemap_urls = <<>>
    /\ pc = "ready"
    /\ sm_i = 1
    /\ runs = 0
    /\ fetched = <<>>
    /\ enqueued = Bump(<<>>, base_url)
    /\ run_fetches = 0
    /\ site = [discovery |-> <<>>, sitemaps |-> <<>>]
    /\ failed = {}
    /\ sources = <<>>
    /\ last = [op |-> "init"]
    /\ NoKnowledgeBase
    /\ NoWeb
    /\ NoRebuild

\* line 12: the default of the delay argument, in seconds
delay == 1

\* scrape_page, line 170: time.sleep(self.delay), as the list of the sleeps of a step
Sleep(seconds) == <<seconds>>

\* the while test of line 338: len(self.scraped_data) < self.max_pages is the negation
\* of the comparison of line 124
LoopTest(queue, scraped) == queue # <<>> /\ ~CapReached(scraped, max_pages)

\* line 339 reading the left end of the queue without removing it
Peeked(queue) == queue

\* line 339: the queue after popleft
Popped(queue) == Tail(queue)

\* the for loop of lines 331-335 left after its first round
AfterFirstSitemap(i, sitemaps) == "crawling"

\* lines 331-337: where crawl_site is once sitemap number i - 1 is merged
AfterSitemap(i, sitemaps) == IF i > Len(sitemaps) THEN "crawling" ELSE "seeding"

\* The site does not change while one crawler lives: robots.txt, the common sitemap
\* locations and every sitemap URL answer a later request as they answered the first.
DiscoveryAnswers ==
    IF site.discovery = <<>>
    THEN {<<[robots |-> r, answering |-> a]>> : r \in RobotsResponses, a \in CommonResponses}
    ELSE {site.discovery}

SitemapAnswers(sitemap_url) ==
    IF sitemap_url \in DOMAIN site.sitemaps THEN {site.sitemaps[sitemap_url]}
    ELSE SitemapResponses

\* crawl_site is called: line 328, discover_sitemap
CallCrawlSite ==
    /\ pc \in {"ready", "returned"}
    /\ runs < MaxRuns
    /\ \E d \in DiscoveryAnswers :
          /\ sitemap_urls' = sitemap_urls \o discover_sitemap(base_url, d[1].robots, d[1].answering)
          /\ site' = [site EXCEPT !.discovery = d]
    /\ runs' = runs + 1
    /\ sm_i' = 1
    /\ run_fetches' = 0
    /\ pc' = AfterSitemap(1, sitemap_urls')
    /\ last' = [op |-> "discover"]
    /\ UNCHANGED <<base_url, max_pages, scraped_data, visited_urls, url_queue, fetched, enqueued,
                   failed, sources>>
    /\ UNCHANGED <<kb_vars, serving_vars>>

\* one round of the for loop of lines 331-335
ParseSitemap ==
    /\ pc = "seeding"
    /\ \E response \in SitemapAnswers(sitemap_urls[sm_i]) :
       \E found \in {parse_sitemap(response, visited_urls)} :
       \E queue \in {MergeSitemap(found, url_queue)} :
          /\ url_queue' = queue
          /\ enqueued' = BumpAll(enqueued, SubSeq(queue, Len(url_queue) + 1, Len(queue)))
          /\ site' = [site EXCEPT !.sitemaps = Bind(site.sitemaps, sitemap_urls[sm_i], response)]
          /\ last' = [op |-> "sitemap", response |-> response,
                      gained |-> Len(queue) - Len(url_queue)]
    /\ sm_i' = sm_i + 1
    /\ pc' = AfterSitemap(sm_i + 1, sitemap_urls)
    /\ UNCHANGED <<base_url, max_pages, scraped_data, visited_urls, sitemap_urls, runs,
                   fetched, run_fetches, failed, sources>>
    /\ UNCHANGED <<kb_vars, serving_vars>>

\* lines 339-341: a target is popped and not fetched
Skip ==
    /\ pc = "crawling"
    /\ LoopTest(url_queue, scraped_data)
    /\ ~should_crawl_url(Head(url_queue))
    /\ url_queue' = Popped(url_queue)
    /\ last' = [op |-> "skip", url |-> Head(url_queue), slept |-> <<>>]
    /\ UNCHANGED <<base_url, max_pages, scraped_data, visited_urls, sitemap_urls, pc, sm_i,
                   runs, fetched, enqueued, run_fetches, site, failed, sources>>
    /\ UNCHANGED <<kb_vars, serving_vars>>

\* lines 339-341 and scrape_page, lines 143-172: a target is popped, fetched and scraped
ScrapeOk ==
    /\ pc = "crawling"
    /\ LoopTest(url_queue, scraped_data)
    /\ should_crawl_url(Head(url_queue))
    /\ \E doc \in Docs :
       \E visited \in {MarkVisited(visited_urls, Head(url_queue))} :
       \E page \in {page_data(doc, Head(url_queue), visited)} :
       \E queue \in {QueueLinks(page.links_found, visited, Popped(url_queue))} :
          /\ visited_urls' = visited
          /\ scraped_data' = Append(scraped_data, page)
          /\ url_queue' = queue
          /\ fetched' = Bump(fetched, Head(url_queue))
          /\ enqueued' = BumpAll(enqueued, SubSeq(queue, Len(Popped(url_queue)) + 1, Len(queue)))
          /\ sources' = Append(sources, [doc |-> doc, visited |-> visited])
          /\ last' = [op |-> "scraped", url |-> Head(url_queue), doc |-> doc,
                      slept |-> Sleep(delay)]
    /\ run_fetches' = run_fetches + 1
    /\ UNCHANGED <<base_url, max_pages, sitemap_urls, pc, sm_i, runs, site, failed>>
    /\ UNCHANGED <<kb_vars, serving_vars>>

\* lines 339-341 and scrape_page, lines 143-146 or 151-160, then 174-177: the fetch
\* ("fetch") or the parse of the fetched document ("parse") raises
ScrapeFails ==
    /\ pc = "crawling"
    /\ LoopTest(url_queue, scraped_data)
    /\ should_crawl_url(Head(url_queue))
    /\ \E what \in {"fetch", "parse"} :
          last' = [op |-> "failed", url |-> Head(url_queue), what |-> what, slept |-> <<>>]
    /\ visited_urls' = MarkFailed(visited_urls, Head(url_queue))
    /\ url_queue' = Popped(url_queue)
    /\ fetched' = Bump(fetched, Head(url_queue))
    /\ failed' = failed \cup {Head(url_queue)}
    /\ run_fetches' = run_fetches + 1
    /\ UNCHANGED <<base_url, max_pages, scraped_data, sitemap_urls, pc, sm_i, runs, enqueued,
                   site, sources>>
    /\ UNCHANGED <<kb_vars, serving_vars>>

\* lines 343-344: the loop ends and crawl_site returns
Return ==
    /\ pc = "crawling"
    /\ ~LoopTest(url_queue, scraped_data)
    /\ pc' = "returned"
    /\ last' = [op |-> "return"]
    /\ UNCHANGED <<base_url, max_pages, scraped_data, visited_urls, url_queue, sitemap_urls,
                   sm_i, runs, fetched, enqueued, run_fetches, site, failed, sources>>
    /\ UNCHANGED <<kb_vars, serving_vars>>

Next == CallCrawlSite \/ ParseSitemap \/ Skip \/ ScrapeOk \/ ScrapeFails \/ Return

Spec == Init /\ [][Next]_vars

\* crawl_site is sequential code: once called, each of its steps that can be taken is
\* taken.  Nothing obliges a caller to call crawl_site again.
FairSpec == Spec /\ WF_vars(ParseSitemap \/ Skip \/ ScrapeOk \/ ScrapeFails \/ Return)

TypeOK ==
    /\ base_url \in Seeds
    /\ max_pages \in 0..MaxPagesBound
    /\ pc \in {"ready", "seeding", "crawling", "returned"}
    /\ runs \in 0..MaxRuns

(***************************************************************************)
(* Properties of the crawl                                                 *)
(***************************************************************************)

\* the URLs of a sequence
Range(seq) == {seq[k] : k \in 1..Len(seq)}

\* C1: over a whole run every URL is fetched by scrape_page at most once, however
\* often it is discovered or queued and whether its fetch succeeds or fails.
C1_FetchedAtMostOnce == \A u \in DOMAIN fetched : fetched[u] <= 1

\* the page just scraped links to a URL that was fetched before it
C1_Rediscovered ==
    /\ last.op = "scraped"
    /\ \E u \in DOMAIN fetched :
          /\ u # last.url
          /\ fetched[u] = 1
          /\ InSeq(u, discover_links(last.doc, last.url, {}))

\* C2: scraped_data never holds more than max_pages records.
C2_CapHolds == Len(scraped_data) <= max_pages

\* the cap is reached while targets are still waiting
C2_CapReachedWithWork == max_pages > 0 /\ Len(scraped_data) = max_pages /\ url_queue # <<>>

\* C3: a URL once appended to the frontier is never appended again.
C3_NeverEnqueuedTwice == \A u \in DOMAIN enqueued : enqueued[u] <= 1

\* C4: every call of crawl_site returns, and when it has returned the frontier is
\* empty or the number of scraped pages equals max_pages.
C4_Terminates ==
    /\ (pc \in {"seeding", "crawling"}) ~> (pc = "returned")
    /\ [](pc = "returned" => (url_queue = <<>> \/ Len(scraped_data) = max_pages))

\* crawl_site returned with pages scraped, a fetch failed, and targets left over
C4_ReturnedAtCap ==
    pc = "returned" /\ url_queue # <<>> /\ Len(scraped_data) = max_pages /\ failed # {}

\* C5: a failing fetch or parse marks the URL visited, appends no record, adds
\* nothing to the frontier and lets the loop go on; the URL is never fetched
\* again nor queued again.
C5_FailedIsSkipped ==
    /\ [](\A u \in failed : /\ u \in visited_urls
                            /\ fetched[u] = 1
                            /\ ~InSeq(u, url_queue)
                            /\ \A k \in 1..Len(scraped_data) : scraped_data[k].url # u)
    /\ [][failed' # failed =>
            /\ failed' = failed \cup {Head(url_queue)}
            /\ scraped_data' = scraped_data
            /\ url_queue' = Tail(url_queue)
            /\ pc' = "crawling"]_vars

\* a page scraped after a failure links to the URL that failed
C5_FailedLinkedAgain ==
    /\ last.op = "scraped"
    /\ \E u \in failed : InSeq(u, discover_links(last.doc, last.url, {}))

\* scheme and host of a URL
Origin(url) == <<urlparse(url).scheme, urlparse(url).netloc>>

\* the path of the URL ends in a non-document extension
PathHasSkipExtension(url) == EndsWithAny(Lower(urlparse(url).path), skip_extensions)

\* C6: the target about to be popped is fetched if and only if it is not visited,
\* the cap is not reached, its path does not end in a non-document extension and
\* its origin is the seed's.
C6_FetchedIffNoSkipCondition ==
    (pc = "crawling" /\ LoopTest(url_queue, scraped_data)) =>
        (should_crawl_url(Head(url_queue)) <=>
            /\ Head(url_queue) \notin visited_urls
            /\ Len(scraped_data) < max_pages
            /\ ~PathHasSkipExtension(Head(url_queue))
            /\ Origin(Head(url_queue)) = Origin(base_url))

\* C7: no page is fetched in a call of crawl_site before each of its sitemaps is
\* parsed and merged.
C7_SeedingPrecedesFetching ==
    run_fetches > 0 => (pc \in {"crawling", "returned"} /\ sm_i > Len(sitemap_urls))

\* pages are fetched after two sitemaps were merged, one of which added targets
C7_FetchedAfterSeeding ==
    /\ run_fetches > 0
    /\ Len(sitemap_urls) >= 2
    /\ \E u \in DOMAIN enqueued : u # base_url /\ Count(fetched, u) = 0

\* the distinct URLs of the seed's origin that a sitemap lists
ListedSameOrigin(response) == {u \in Range(Listed[response]) : Origin(u) = Origin(base_url)}

\* the distinct URLs a sitemap lists that pass the test of parse_sitemap
ListedOnSite(response) == {u \in Range(Listed[response]) : Contains(u, "arbodentalcare.com")}

\* the part of the queue that the step appends
Gained == SubSeq(url_queue', Len(url_queue) + 1, Len(url_queue'))

RECURSIVE Without(_, _)
\* the sequence without the members of a set
Without(seq, set) ==
    IF seq = <<>> THEN <<>>
    ELSE (IF Head(seq) \in set THEN <<>> ELSE <<Head(seq)>>) \o Without(Tail(seq), set)

RECURSIVE Kinds(_)
\* the types of the heading, paragraph and list-item blocks of a content list
Kinds(content) ==
    IF content = <<>> THEN <<>>
    ELSE (IF Head(content).type \in TextTags THEN <<Head(content).type>> ELSE <<>>)
            \o Kinds(Tail(content))

RECURSIVE LongElements(_, _)
\* the heading, paragraph and list-item elements whose trimmed text is longer than
\* MinTextLen, in document order
LongElements(body, k) ==
    IF k > Len(body) THEN <<>>
    ELSE (IF body[k].name \in TextTags /\ Len(Strip(get_text(body, k))) > MinTextLen
          THEN <<body[k].name>> ELSE <<>>) \o LongElements(body, k + 1)

\* C10: the content of a record has one block per heading, paragraph or list item
\* whose trimmed text is longer than 10 characters, in document order, and no other
\* block of those kinds.
C10_OneBlockPerLongElement ==
    \A k \in 1..Len(scraped_data) :
        Kinds(scraped_data[k].content) = LongElements(sources[k].doc.body, 1)

(***************************************************************************)
(* knowledge_base.py: process_scraped_data                                 *)
(***************************************************************************)

\* line 35: the block types chunked as text
ChunkedTypes == {"h1", "h2", "h3", "h4", "h5", "h6", "p", "li"}

\* line 37: a text block is chunked when its stripped text is longer than this
MinChunkLen == 20

\* lines 39-46 and the like: a chunk with its metadata
Chunk(page, text, content_type, chunk_type) ==
    [text     |-> text,
     metadata |-> [source       |-> page.url,
                   title        |-> page.title,
                   content_type |-> content_type,
                   chunk_type   |-> chunk_type]]

\* lines 35-47: the chunk of a heading, paragraph or list item
TextChunks(page, item) ==
    IF item.text # "" /\ Len(Strip(item.text)) > MinChunkLen
    THEN <<Chunk(page, item.text, item.type, "content")>>
    ELSE <<>>

\* lines 51-53: the text of a team member's chunk
MemberText(member) ==
    "Team Member: " \o member.name \o (IF member.bio # "" THEN " - " \o member.bio ELSE "")

\* lines 49-64: one chunk per member of a team section
TeamChunks(page, item) ==
    [k \in 1..Len(item.data) |-> Chunk(page, MemberText(item.data[k]), "team_member", "team_info")]

\* dict.get(key) that is truthy
Has(dict, key) == key \in DOMAIN dict /\ dict[key] # ""

\* lines 68-75: the text of the contact chunk
ContactText(contact_data) ==
    "Contact Information: "
        \o (IF Has(contact_data, "phone") THEN "Phone: " \o contact_data["phone"] \o " " ELSE "")
        \o (IF Has(contact_data, "email") THEN "Email: " \o contact_data["email"] \o " " ELSE "")
        \o (IF Has(contact_data, "address") THEN "Address: " \o contact_data["address"] ELSE "")

\* lines 66-85: the chunk of a contact block
ContactChunks(page, item) == <<Chunk(page, ContactText(item.data), "contact_info", "contact")>>

\* lines 87-98: one chunk per service of a services block
ServiceChunks(page, item) ==
    [k \in 1..Len(item.data) |-> Chunk(page, "Service: " \o item.data[k], "service", "service_info")]

\* a JSON value that is no object, as an item of a content list: a record with the
\* one field json, which no object of the snapshots has
NonDict(value) == [json |-> value]

\* line 34: isinstance(content_item, dict)
IsDict(item) == "json" \notin DOMAIN item

\* lines 34-35: the item is a dict with a type
HasType(item) == IsDict(item) /\ "type" \in DOMAIN item

\* lines 34-98: the chunks of one content item; an item that is no dict, has no type
\* or is of another type gives none
ItemChunks(page, item) ==
    IF ~HasType(item) THEN <<>>
    ELSE CASE item.type \in ChunkedTypes  -> TextChunks(page, item)
           [] item.type = "team_section"  -> TeamChunks(page, item)
           [] item.type = "contact_info"  -> ContactChunks(page, item)
           [] item.type = "services"      -> ServiceChunks(page, item)
           [] OTHER                       -> <<>>

\* lines 36, 50, 71, 85: the types the branches of the loop are for
BranchTypes == ChunkedTypes \cup {"team_section", "contact_info", "services"}

\* the item is one a branch of the loop is for
Classified(item) == HasType(item) /\ item.type \in BranchTypes

RECURSIVE ContentChunksUntilUnknown(_, _)
\* the loop over the content of one page left at the first item no branch is for
ContentChunksUntilUnknown(page, k) ==
    IF k > Len(page.content) \/ ~Classified(page.content[k]) THEN <<>>
    ELSE ItemChunks(page, page.content[k]) \o ContentChunksUntilUnknown(page, k + 1)

RECURSIVE ContentChunks(_, _)
\* lines 34-98: the loop over the content of one page, from item k on
ContentChunks(page, k) ==
    IF k > Len(page.content) THEN <<>>
    ELSE ItemChunks(page, page.content[k]) \o ContentChunks(page, k + 1)

RECURSIVE process_scraped_data(_)
\* lines 21-100
process_scraped_data(scraped) ==
    IF scraped = <<>> THEN <<>>
    ELSE ContentChunks(Head(scraped), 1) \o process_scraped_data(Tail(scraped))

(***************************************************************************)
(* knowledge_base.py: the snapshots, the hash and the store                *)
(***************************************************************************)

\* a row of the CSV file of manual questions and answers (merge_qa_data.py, lines 19-25)
QaItem ==
    [question |-> "Do you accept insurance?",
     answer   |-> "Yes, we accept most major dental insurance plans.",
     category |-> "insurance",
     source   |-> "front desk",
     priority |-> "high"]

\* s[:n]
Prefix(s, n) == SubSeq(s, 1, IF Len(s) < n THEN Len(s) ELSE n)

\* merge_qa_data.py, create_qa_page, lines 45-73
create_qa_page(qa_item) ==
    [url         |-> "manual_qa_" \o qa_item.category \o "_" \o qa_item.priority,
     title       |-> "Q&A: " \o Prefix(qa_item.question, 50) \o "...",
     content     |-> <<[type |-> "h2", text |-> qa_item.question],
                       [type |-> "p", text |-> qa_item.answer],
                       [type |-> "div",
                        text |-> "Category: " \o qa_item.category \o " | Priority: "
                                    \o qa_item.priority \o " | Source: " \o qa_item.source]>>,
     metadata    |-> [description |-> "Answer to: " \o qa_item.question,
                      language    |-> "en",
                      qa_category |-> qa_item.category,
                      qa_priority |-> qa_item.priority,
                      qa_source   |-> qa_item.source],
     links_found |-> <<>>,
     qa_data     |-> qa_item]

\* a page record written by hand: a list where a block is expected, a block without
\* a type and a block of a type of its own among blocks the chunker knows
PageByHand ==
    [url         |-> "manual_notes",
     title       |-> "Notes",
     content     |-> <<NonDict(<<"New patients">>),
                        [type |-> "p", text |-> "We welcome new patients every day."],
                        [text |-> "A block that has no type at all"],
                        [type |-> "table", text |-> "Monday to Friday, 9 to 5"],
                        [type |-> "li", text |-> "Free parking behind the office"] >>,
     metadata    |-> [language |-> "en"],
     links_found |-> <<>>]

\* the records scrape_page makes of the two documents, and of the home document
\* served a second time at /about; the page of a manual question; the page by hand
SnapshotPages ==
    <<page_data(DocHome, Site \o "/", {}),
      page_data(DocAbout, Site \o "/about", {}),
      page_data(DocHome, Site \o "/about", {}),
      create_qa_page(QaItem),
      PageByHand>>

\* the pages with the given places in SnapshotPages
Snapshot(pages, places) == [k \in 1..Len(places) |-> pages[places[k]]]

\* the snapshots build_knowledge_base is given: the JSON file a crawl saved
Snapshots ==
    {Snapshot(SnapshotPages, places) : places \in {<<>>, <<2>>, <<1, 3>>, <<4, 5, 1>>}}

\* process_scraped_data of each snapshot
ChunksOf == [snapshot \in Snapshots |-> process_scraped_data(snapshot)]

\* the texts of a sequence of chunks
TextsOf(chunks) == [k \in 1..Len(chunks) |-> chunks[k].text]

\* every chunk text of the snapshots, each once: the pages but the third have no text
\* in common
KnownTexts == TextsOf(process_scraped_data(Snapshot(SnapshotPages, <<1, 2, 4, 5>>)))

\* the seeds a Python process can draw for str.__hash__ (PYTHONHASHSEED unset), or
\* is given (PYTHONHASHSEED set)
HashSeeds == {0, 1}

\* the place of each text in a sequence of texts
PlaceIn(texts) ==
    [text \in Range(texts) |-> CHOOSE k \in 1..Len(texts) : texts[k] = text]

\* the place of a text among the known texts
CodeOf == PlaceIn(KnownTexts)

\* line 110, hash(chunk['text']): str.__hash__ is a keyed hash, a function of the
\* process's seed and the text; no two of the known texts collide
hash(seed, text) == seed * Len(KnownTexts) + CodeOf[text]

\* line 110: f"chunk_{i}_{hash(chunk['text'])}", i counted from 0
ChunkId(i, seed, text) == <<"chunk", i, hash(seed, text)>>

\* line 110: the ids of a batch
Ids(chunks, seed) == [k \in 1..Len(chunks) |-> ChunkId(k - 1, seed, chunks[k].text)]

\* the ids of the records of a collection
StoredIds(records) == {records[k].id : k \in 1..Len(records)}

RECURSIVE Added(_, _, _, _)
\* collection.add, lines 116-121, from chunk k on: a record is appended for each id
\* that the collection does not hold yet; an id it holds is left as it is
Added(records, chunks, ids, k) ==
    IF k > Len(chunks) THEN records
    ELSE Added(IF ids[k] \in StoredIds(records) THEN records
               ELSE Append(records, [id       |-> ids[k],
                                     text     |-> chunks[k].text,
                                     metadata |-> chunks[k].metadata]),
               chunks, ids, k + 1)

\* what can happen in a call of add_to_knowledge_base: nothing fails, encode raises
\* (line 113), or collection.add raises (lines 116-121)
Outcomes == {"ok", "encode_fails", "add_fails"}

\* add_to_knowledge_base treating the empty batch like any other
NeverEmpty(chunks) == FALSE

\* line 104: if not chunks
IsEmpty(chunks) == chunks = <<>>

\* a call of add_to_knowledge_base in which a failure is caught and not raised again
Swallowed(what) == ""

\* lines 113 and 116: the calls are in no try block, what they raise leaves
\* add_to_knowledge_base
Raised(what) == what

\* add_to_knowledge_base, lines 102-123: the collection after the call, what failed in
\* the call and what the call raised ("" for nothing), the calls of encode and of
\* collection.add it made, and the number of chunks in the message it printed (lines
\* 105 and 123; -1 for no message).  collection.add on a deleted collection raises.
add_to_knowledge_base(st, hdl, seed, chunks, outcome) ==
    IF IsEmpty(chunks)
    THEN [store |-> st, failed |-> "", raised |-> "",
          encode_calls |-> 0, add_calls |-> 0, printed |-> 0]
    ELSE IF outcome = "encode_fails"
    THEN [store |-> st, failed |-> "encode", raised |-> Raised("encode"),
          encode_calls |-> 1, add_calls |-> 0, printed |-> -1]
    ELSE IF outcome = "add_fails" \/ hdl # "live"
    THEN [store |-> st, failed |-> "add", raised |-> Raised("add"),
          encode_calls |-> 1, add_calls |-> 1, printed |-> -1]
    ELSE [store |-> [st EXCEPT !.records = Added(st.records, chunks, Ids(chunks, seed), 1)],
          failed |-> "", raised |-> "",
          encode_calls |-> 1, add_calls |-> 1, printed |-> Len(chunks)]

\* __init__, lines 15-19: get_or_create_collection
get_or_create_collection(st) ==
    IF st.exists THEN st ELSE [exists |-> TRUE, space |-> "cosine", records |-> <<>>]

(***************************************************************************)
(* knowledge_base.py: search and clear_knowledge_base                      *)
(***************************************************************************)

\* two of the questions main asks (lines 218-228)
Queries == {"What is the phone number?", "Do you accept insurance?"}

\* The embedding model is outside the repository.  What it gives is a cosine distance
\* between 0 and 2 for a question and a text, here in hundredths and by the place of
\* the text among the known texts.
Distances ==
    [q \in Queries |->
        IF q = "What is the phone number?"
        THEN <<72, 40, 0, 40, 152, 200, 96, 120, 60, 108, 112, 84, 132>>
        ELSE <<100, 152, 136, 140, 80, 92, 200, 88, 120, 16, 24, 104, 144>>]

\* the distance of a text to a question
Distance(q, text) == Distances[q][CodeOf[text]]

\* the distances of the records of a collection to a question
DistancesTo(q, records) == [i \in 1..Len(records) |-> Distance(q, records[i].text)]

\* the place of record j when the records are put in the order of their distances ds,
\* records at the same distance in the order they were added
Rank(ds, j) ==
    1 + Cardinality({i \in 1..Len(ds) : ds[i] < ds[j] \/ (ds[i] = ds[j] /\ i < j)})

\* the smaller of two numbers
Min(a, b) == IF a < b THEN a ELSE b

\* the first n of the records in the order of their distances ds
Nearest(records, ds, n) ==
    [p \in 1..n |-> records[CHOOSE j \in 1..Len(ds) : Rank(ds, j) = p]]

\* collection.query that returns every record
query_all(records, q, n_results) == Nearest(records, DistancesTo(q, records), Len(records))

\* collection.query, lines 131-135: the n_results nearest records, nearest first, all
\* of them when the collection holds fewer
query(records, q, n_results) ==
    Nearest(records, DistancesTo(q, records), Min(n_results, Len(records)))

\* lines 138-144: the results as search returns them
Formatted(results, q) ==
    [p \in 1..Len(results) |-> [text     |-> results[p].text,
                                metadata |-> results[p].metadata,
                                distance |-> Distance(q, results[p].text)]]

\* search, lines 125-146: what it returns, and what it raised ("" when it returned);
\* the query of a collection that was deleted raises
search(st, hdl, q, n_results) ==
    IF hdl = "live"
    THEN [results |-> Formatted(query(st.records, q, n_results), q), raised |-> ""]
    ELSE [results |-> <<>>, raised |-> "query"]

\* what can happen in a call of clear_knowledge_base: nothing fails, delete_collection
\* raises (line 160), or create_collection raises (line 161)
ClearOutcomes == {"ok", "delete_fails", "create_fails"}

\* clear_knowledge_base, lines 158-165: the collection and self.collection after the
\* call, and what the call raised.  delete_collection raises when the collection does
\* not exist.
clear_knowledge_base(st, hdl, outcome) ==
    IF outcome = "delete_fails" \/ ~st.exists
    THEN [store |-> st, handle |-> hdl, raised |-> "delete"]
    ELSE IF outcome = "create_fails"
    THEN [store  |-> [exists |-> FALSE, space |-> "", records |-> <<>>],
          handle |-> "deleted", raised |-> "create"]
    ELSE [store  |-> [exists |-> TRUE, space |-> "cosine", records |-> <<>>],
          handle |-> "live", raised |-> ""]

\* get_collection_info, line 150: collection.count()
count(st) == Len(st.records)

(***************************************************************************)
(* arbo_agent.py: _calculate_confidence                                    *)
(***************************************************************************)

RECURSIVE SumDistances(_, _)
\* line 140: the sum of the distances of the results from result k on
SumDistances(search_results, k) ==
    IF k > Len(search_results) THEN 0
    ELSE search_results[k].distance + SumDistances(search_results, k + 1)

\* the larger of two numbers
Max(a, b) == IF a > b THEN a ELSE b

\* the quotient q of a division by den that left r, made the nearest whole number, the
\* even one of two that are equally near
NearestWhole(q, r, den) ==
    IF 2 * r < den THEN q
    ELSE IF 2 * r > den THEN q + 1
    ELSE IF q % 2 = 0 THEN q ELSE q + 1

\* round(x, 2), line 146, of x = num / den hundredths
Round(num, den) == NearestWhole(num \div den, num % den, den)

\* _calculate_confidence with lines 135-136 returning 1.0
ConfidenceOneForEmpty(search_results) ==
    IF search_results = <<>> THEN 100
    ELSE Round(Max(0, 200 * Len(search_results) - SumDistances(search_results, 1)),
               2 * Len(search_results))

\* _calculate_confidence with line 144 not halving the average
ConfidenceNotHalved(search_results) ==
    IF search_results = <<>> THEN 0
    ELSE Round(Max(0, 100 * Len(search_results) - SumDistances(search_results, 1)),
               Len(search_results))

\* _calculate_confidence, lines 133-146, in hundredths: with n results whose distances
\* sum to s hundredths, 1 - (s / n) / 2 is (200 n - s) / (2 n) hundredths
_calculate_confidence(search_results) ==
    IF search_results = <<>> THEN 0
    ELSE Round(Max(0, 200 * Len(search_results) - SumDistances(search_results, 1)),
               2 * Len(search_results))

\* knowledge_base.py, line 236, and rebuild_knowledge_base.py, lines 84-85: the
\* confidence printed for one result, 1 - distance, in hundredths
PrintedConfidence(result) == 100 - result.distance

\* process_query, line 60: n_results=5
AgentResults == 5

\* main, line 232: n_results=3
MainResults == 3

(***************************************************************************)
(* The knowledge base as a state machine                                   *)
(***************************************************************************)

\* calls of add_to_knowledge_base in one behaviour
MaxIndexCalls == 2

\* the largest n_results search is called with
MaxK == 6

\* the longest result list _calculate_confidence is given on its own
MaxResults == 2

\* the distances of those results, in hundredths
DistanceValues == {0, 40, 200}

\* the result lists _calculate_confidence is given on its own: search hands over
\* results in the order of collection.query, nearest first
ResultLists ==
    {results \in UNION {[1..n -> {[distance |-> d] : d \in DistanceValues}] : n \in 0..MaxResults} :
        \A p \in 1..(Len(results) - 1) : results[p].distance <= results[p + 1].distance}

\* no crawler runs while the knowledge base is worked on
NoCrawler ==
    /\ base_url = Site
    /\ max_pages = 0
    /\ scraped_data = <<>>
    /\ visited_urls = {}
    /\ url_queue = <<>>
    /\ sitemap_urls = <<>>
    /\ pc = "none"
    /\ sm_i = 1
    /\ runs = 0
    /\ fetched = <<>>
    /\ enqueued = <<>>
    /\ run_fetches = 0
    /\ site = [discovery |-> <<>>, sitemaps |-> <<>>]
    /\ failed = {}
    /\ sources = <<>>
    /\ last = [op |-> "none"]

\* ArboDentalKnowledgeBase() over a new persist directory, lines 10-19
KbInit ==
    /\ NoCrawler
    /\ NoWeb
    /\ NoRebuild
    /\ store = get_or_create_collection([exists |-> FALSE, space |-> "", records |-> <<>>])
    /\ handle = "live"
    /\ hash_seed \in HashSeeds
    /\ index_calls = 0
    /\ kb_last = [op |-> "init"]

\* build_knowledge_base, lines 178-182: "Knowledge base built successfully!" is printed,
\* and the knowledge base returned, when add_to_knowledge_base raised nothing
BuiltSuccessfully(raised) == raised = ""

\* what a call of add_to_knowledge_base leaves in the history
IndexReport(op, snapshot, before, r) ==
    [op           |-> op,
     snapshot     |-> snapshot,
     chunks       |-> ChunksOf[snapshot],
     before       |-> before,
     failed       |-> r.failed,
     raised       |-> r.raised,
     encode_calls |-> r.encode_calls,
     add_calls    |-> r.add_calls,
     printed      |-> r.printed,
     built        |-> op = "build" /\ BuiltSuccessfully(r.raised)]

\* build_knowledge_base, lines 167-186, in a process that may be a new one: a new
\* ArboDentalKnowledgeBase over the same directory, process_scraped_data,
\* add_to_knowledge_base, get_collection_info.  What add_to_knowledge_base raises
\* leaves build_knowledge_base before line 182 and main of rebuild_knowledge_base.py
\* returns False (lines 61-63).
BuildKnowledgeBase ==
    /\ index_calls < MaxIndexCalls
    /\ \E snapshot \in Snapshots, seed \in HashSeeds, outcome \in Outcomes :
       \E r \in {add_to_knowledge_base(get_or_create_collection(store), "live", seed,
                                       ChunksOf[snapshot], outcome)} :
          /\ store' = r.store
          /\ hash_seed' = seed
          /\ kb_last' = IndexReport("build", snapshot, store, r)
    /\ handle' = "live"
    /\ index_calls' = index_calls + 1
    /\ UNCHANGED <<crawl_vars, serving_vars>>

\* add_to_knowledge_base is called on the object there is
AddToKnowledgeBase ==
    /\ index_calls < MaxIndexCalls
    /\ \E snapshot \in Snapshots, outcome \in Outcomes :
       \E r \in {add_to_knowledge_base(store, handle, hash_seed, ChunksOf[snapshot], outcome)} :
          /\ store' = r.store
          /\ kb_last' = IndexReport("add", snapshot, store, r)
    /\ index_calls' = index_calls + 1
    /\ UNCHANGED <<crawl_vars, serving_vars, handle, hash_seed>>

\* clear_knowledge_base is called
ClearKnowledgeBase ==
    /\ \E outcome \in ClearOutcomes :
       \E r \in {clear_knowledge_base(store, handle, outcome)} :
          /\ store' = r.store
          /\ handle' = r.handle
          /\ kb_last' = [op |-> "clear", before |-> store, raised |-> r.raised]
    /\ UNCHANGED <<crawl_vars, serving_vars, hash_seed, index_calls>>

\* search is called
Search ==
    /\ \E q \in Queries, k \in 1..MaxK :
       \E r \in {search(store, handle, q, k)} :
          kb_last' = [op |-> "search", query |-> q, n_results |-> k,
                      results |-> r.results, raised |-> r.raised]
    /\ UNCHANGED <<crawl_vars, serving_vars, store, handle, hash_seed, index_calls>>

\* what the call of the chat completion does: it answers or it raises
GeneratorOutcomes == {"answers", "raises"}

\* an answer of the model, stripped
Answer == "We are open Monday to Friday."

\* the text of the exception a failed call raises
GeneratorError == "Connection error."

\* arbo_agent.py, _prepare_context, lines 97-106: the parts joined by blank lines
_prepare_context(search_results) ==
    IF search_results = <<>> THEN <<"No specific information found in the knowledge base.">>
    ELSE [p \in 1..Len(search_results) |-> <<"Source", p, search_results[p].text>>]

\* _generate_response without its try: the exception of the call leaves the function
GenerateResponseRaises(user_query, context, outcome) ==
    IF outcome = "answers" THEN [text |-> Answer, raised |-> ""]
    ELSE [text |-> "", raised |-> GeneratorError]

\* _generate_response, lines 108-131: the answer, or the apology of the except branch
_generate_response(user_query, context, outcome) ==
    IF outcome = "answers" THEN [text |-> Answer, raised |-> ""]
    ELSE [text   |-> "I apologize, but I'm having trouble generating a response right now. "
                        \o "Please contact Arbo Dental Care directly at (905) 775-7377 "
                        \o "for assistance. Error: " \o GeneratorError,
          raised |-> ""]

\* process_query, lines 64-69: the sources of the results
SourcesOf(search_results) ==
    [p \in 1..Len(search_results) |-> search_results[p].metadata.source]

\* process_query, lines 87-94: the dict of the except branch
ErrorResult(user_query, e) ==
    [query      |-> user_query,
     response   |-> "I apologize, but I encountered an error processing your request. "
                       \o "Please contact Arbo Dental Care directly at (905) 775-7377 "
                       \o "for assistance.",
     error      |-> e,
     sources    |-> <<>>,
     confidence |-> 0]

\* process_query, lines 56-95, without the debug_info of its result: what the search
\* gave, the dict returned and the exception that leaves process_query, "" for none
process_query(st, hdl, user_query, outcome) ==
    LET found == search(st, hdl, user_query, AgentResults)
    IN  IF found.raised # ""
        THEN [found |-> found, returned |-> ErrorResult(user_query, found.raised),
              raised |-> ""]
        ELSE LET response == _generate_response(user_query,
                                                _prepare_context(found.results), outcome)
             IN  IF response.raised # ""
                 THEN [found |-> found,
                       returned |-> ErrorResult(user_query, response.raised),
                       raised |-> ""]
                 ELSE [found |-> found,
                       returned |-> [query      |-> user_query,
                                     response   |-> response.text,
                                     sources    |-> SourcesOf(found.results),
                                     confidence |-> _calculate_confidence(found.results)],
                       raised |-> ""]

\* process_query is called: the search, the call of the model, the dict returned
ProcessQuery ==
    /\ \E q \in Queries, outcome \in GeneratorOutcomes :
       \E r \in {process_query(store, handle, q, outcome)} :
          kb_last' = [op |-> "process_query", query |-> q,
                      results |-> r.found.results, raised |-> r.found.raised,
                      confidence |-> r.returned.confidence,
                      generator |-> IF r.found.raised = "" THEN outcome ELSE "not called",
                      returned |-> r.returned, left |-> r.raised]
    /\ UNCHANGED <<crawl_vars, serving_vars, store, handle, hash_seed, index_calls>>

\* one round of the loop of main, knowledge_base.py lines 230-236: a search and the
\* confidence printed for each result
MainQuery ==
    /\ handle = "live"
    /\ \E q \in Queries :
       \E r \in {search(store, handle, q, MainResults)} :
          kb_last' = [op |-> "main_query", query |-> q, results |-> r.results,
                      printed |-> [p \in 1..Len(r.results) |->
                                      PrintedConfidence(r.results[p])]]
    /\ UNCHANGED <<crawl_vars, serving_vars, store, handle, hash_seed, index_calls>>

\* _calculate_confidence is given a result list
CalculateConfidence ==
    /\ \E search_results \in ResultLists :
          kb_last' = [op |-> "confidence", results |-> search_results,
                      confidence |-> _calculate_confidence(search_results)]
    /\ UNCHANGED <<crawl_vars, serving_vars, store, handle, hash_seed, index_calls>>

KbNext ==
    \/ BuildKnowledgeBase
    \/ AddToKnowledgeBase
    \/ ClearKnowledgeBase
    \/ Search
    \/ ProcessQuery
    \/ MainQuery
    \/ CalculateConfidence

KbSpec == KbInit /\ [][KbNext]_vars

(***************************************************************************)
(* Properties of the knowledge base                                        *)
(***************************************************************************)

\* the last operation indexed a batch
Indexed == kb_last.op \in {"build", "add"}

\* what the blocks of a page record call for: one chunk per heading, paragraph or list
\* item, one per team member, one per contact block, one per service
ChunksCalledFor(item) ==
    IF ~HasType(item) THEN 0
    ELSE CASE item.type \in ChunkedTypes              -> 1
           [] item.type \in {"team_section", "services"} -> Len(item.data)
           [] item.type = "contact_info"              -> 1
           [] OTHER                                   -> 0

RECURSIVE ChunksCalledForIn(_, _)
\* the chunks the blocks of a page record call for, from block k on
ChunksCalledForIn(page, k) ==
    IF k > Len(page.content) THEN 0
    ELSE ChunksCalledFor(page.content[k]) + ChunksCalledForIn(page, k + 1)

\* C11: for every page record of the extractor, process_scraped_data emits as many
\* chunks as the record has heading, paragraph and list-item blocks, plus one per team
\* member, one per contact block and one per service string.  Does not hold: a text
\* block of 11 to 20 characters is a block of the extractor and gets no chunk.
C11_ChunkPerBlock ==
    \A k \in 1..Len(SnapshotPages) :
        Indexed /\ kb_last.snapshot = <<SnapshotPages[k]>>
            => Len(kb_last.chunks) = ChunksCalledForIn(SnapshotPages[k], 1)

\* the records of the collection
Records == store.records

\* C12: the id of a record is a function of its text alone: records with the same text
\* have the same id, whatever their place in the batch and whichever call or process
\* indexed them, and records with different texts have different ids.  Does not hold:
\* the id holds the place in the batch and a hash that is seeded per process.
C12_IdFromTextAlone ==
    \A i, j \in 1..Len(Records) :
        (Records[i].text = Records[j].text) <=> (Records[i].id = Records[j].id)

\* the texts of the batch of the last call were all stored before the call
IndexedAgain ==
    /\ Indexed
    /\ kb_last.chunks # <<>>
    /\ kb_last.raised = ""
    /\ Range(TextsOf(kb_last.chunks)) \subseteq Range(TextsOf(kb_last.before.records))

\* C13: indexing chunks whose texts are stored already leaves the count of the
\* collection as it was.  Does not hold: the same text at another place of the batch,
\* or hashed in another process, gets a new id and a second record.
C13_ReindexKeepsCount == IndexedAgain => count(store) = count(kb_last.before)

\* C14: add_to_knowledge_base([]) returns without raising, calls neither encode nor
\* collection.add, leaves the records and the count of the collection as they were and
\* reports zero chunks
C14_EmptyBatchIsNoOp ==
    Indexed /\ kb_last.chunks = <<>>
        => /\ kb_last.raised = ""
           /\ kb_last.encode_calls = 0
           /\ kb_last.add_calls = 0
           /\ Records = kb_last.before.records
           /\ count(store) = count(kb_last.before)
           /\ kb_last.printed = 0

\* C14: the empty batch was given to a knowledge base that holds records
C14_EmptyBatchOnRecords ==
    kb_last.op = "add" /\ kb_last.chunks = <<>> /\ count(kb_last.before) > 0

\* C15: when encode or collection.add fails, add_to_knowledge_base raises and
\* build_knowledge_base does not report success; when encode fails, collection.add is
\* not called and the collection holds what it held
C15_FailureReachesCaller ==
    Indexed /\ kb_last.failed # ""
        => /\ kb_last.raised # ""
           /\ ~kb_last.built
           /\ kb_last.failed = "encode"
                => kb_last.add_calls = 0 /\ Records = kb_last.before.records

\* C15: encode failed in a build over a collection that holds records
C15_EncodeFailedInBuild ==
    kb_last.op = "build" /\ kb_last.failed = "encode" /\ count(kb_last.before) > 0

\* C16: the named collection always exists with cosine distance, the knowledge base
\* never holds a handle to a deleted collection, and after clear_knowledge_base
\* returns the collection is empty.  Does not hold: the collection is deleted before
\* it is created again, and when create_collection raises it is gone.
C16_ClearIsAtomic ==
    /\ store.exists
    /\ store.space = "cosine"
    /\ handle = "live"
    /\ kb_last.op = "clear" /\ kb_last.raised = "" => count(store) = 0

\* the distances of a result list are non-decreasing
NonDecreasing(results) ==
    \A p \in 1..(Len(results) - 1) : results[p].distance <= results[p + 1].distance

\* C17: search(q, k) on a collection that exists returns min(k, count) results, so at
\* most k, with non-decreasing distances
C17_AtMostKNearestFirst ==
    kb_last.op = "search" /\ kb_last.raised = ""
        => /\ Len(kb_last.results) <= kb_last.n_results
           /\ Len(kb_last.results) = Min(kb_last.n_results, count(store))
           /\ NonDecreasing(kb_last.results)

\* C17: a search returned every record of a collection that holds fewer than k, at
\* distances that differ
C17_FewerThanKStored ==
    /\ kb_last.op = "search"
    /\ 1 < count(store) /\ count(store) < kb_last.n_results
    /\ Len(kb_last.results) = count(store)
    /\ kb_last.results[1].distance < kb_last.results[count(store)].distance

\* the collection exists and holds no record: never indexed, or cleared
EmptyStore == store.exists /\ handle = "live" /\ count(store) = 0

\* C18: on a collection without records search returns the empty list and raises
\* nothing, and the confidence process_query derives from it is 0.0
C18_EmptyStoreIsNoError ==
    EmptyStore /\ kb_last.op \in {"search", "process_query"}
        => /\ kb_last.raised = ""
           /\ kb_last.results = <<>>
           /\ kb_last.op = "process_query" => kb_last.confidence = 0

\* C18: process_query ran on a collection emptied after a batch was indexed
C18_QueriedAfterClear ==
    EmptyStore /\ kb_last.op = "process_query" /\ index_calls > 0

\* the distances of a result list
DistancesOf(results) == [p \in 1..Len(results) |-> results[p].distance]

\* _calculate_confidence was given results at the distances ds, in hundredths
ConfidenceAsked(ds) == kb_last.op = "confidence" /\ DistancesOf(kb_last.results) = ds

\* the one confidence of a result list, set beside each of its results
BesideEach == [p \in 1..Len(kb_last.results) |-> kb_last.confidence]

\* C19 as stated: for the distances [0.0, 0.4] the confidence is [1.0, 0.8], for no
\* results 0.0, for the single distance 2.0 it is 0.0.  Does not hold for the list:
\* the distances are averaged and one confidence is returned, 0.9.
C19_ConfidencePerDistance ==
    /\ ConfidenceAsked(<<0, 40>>) => BesideEach = <<100, 80>>
    /\ ConfidenceAsked(<<>>) => kb_last.confidence = 0
    /\ ConfidenceAsked(<<200>>) => kb_last.confidence = 0

\* C19: _calculate_confidence returns one number for a result list, 1 - avg / 2 of
\* the average distance, not below 0: 1.0 for the single distance 0.0, 0.8 for the
\* single distance 0.4, 0.9 for the distances [0.0, 0.4], 0.0 for no results and 0.0
\* for the single distance 2.0
C19_ConfidenceOfAverage ==
    /\ ConfidenceAsked(<<0>>) => kb_last.confidence = 100
    /\ ConfidenceAsked(<<40>>) => kb_last.confidence = 80
    /\ ConfidenceAsked(<<0, 40>>) => kb_last.confidence = 90
    /\ ConfidenceAsked(<<>>) => kb_last.confidence = 0
    /\ ConfidenceAsked(<<200>>) => kb_last.confidence = 0

\* C19: _calculate_confidence was given the distances [0.0, 0.4]
C19_AskedForTwo == ConfidenceAsked(<<0, 40>>)

\* a confidence in hundredths between 0 and 1
InUnitInterval(confidence) == 0 <= confidence /\ confidence <= 100

\* C20: every confidence presented lies between 0 and 1: the one process_query
\* returns, the one _calculate_confidence returns, and those main prints.  Does not
\* hold: main prints 1 - distance, which is negative for a distance above 1.
C20_ConfidenceInUnitInterval ==
    /\ kb_last.op \in {"process_query", "confidence"} => InUnitInterval(kb_last.confidence)
    /\ kb_last.op = "main_query"
        => \A p \in 1..Len(kb_last.printed) : InUnitInterval(kb_last.printed[p])

(***************************************************************************)
(* Further properties of the crawl                                         *)
(***************************************************************************)

\* C21: every URL ever appended to url_queue is scheme, host and path only, and no two
\* fetched URLs differ only in query or fragment.  Does not hold: a URL a sitemap
\* lists is appended as it is listed, query and fragment included; only the links of
\* discover_links are cleaned.
C21_FrontierIsNormalized ==
    /\ \A u \in DOMAIN enqueued : u = clean_url(u)
    /\ \A u, v \in DOMAIN fetched : clean_url(u) = clean_url(v) => u = v

\* the URLs of the records of scraped_data, in order
RecordUrls == [k \in 1..Len(scraped_data) |-> scraped_data[k].url]

\* C22: the URLs of the records of scraped_data are pairwise distinct and all in
\* visited_urls, and no step of the crawl changes or removes a record there is
C22_OneRecordPerFetchedUrl ==
    /\ [](/\ \A i, j \in 1..Len(scraped_data) : RecordUrls[i] = RecordUrls[j] => i = j
          /\ Range(RecordUrls) \subseteq visited_urls)
    /\ [][/\ Len(scraped_data') >= Len(scraped_data)
          /\ SubSeq(scraped_data', 1, Len(scraped_data)) = scraped_data]_vars

\* C22: a second record was appended
C22_SecondRecord == Len(scraped_data) >= 2 /\ last.op = "scraped"

\* the last step fetched a page: session.get and raise_for_status returned
FetchSucceeded == last.op = "scraped" \/ (last.op = "failed" /\ last.what = "parse")

\* C23: a step that fetched a page sleeps once, for the configured delay, before the
\* next step can fetch; a step whose fetch failed or that skipped its target does not
\* sleep.  Does not hold: when the fetch succeeds and the parse of the page raises, the
\* except branch is taken and the sleep of line 170 is not reached.
C23_DelayAfterEachFetch ==
    /\ FetchSucceeded => last.slept = <<delay>>
    /\ (last.op = "skip" \/ (last.op = "failed" /\ last.what = "fetch")) => last.slept = <<>>

\* the language a document is to be given: that of its root element where the root
\* element has one, "en" in every other case
LanguageCalledFor(doc) == IF doc.html /\ doc.lang # NoTag THEN doc.lang ELSE "en"

\* C24: the metadata of every record holds a language, that of the root element of
\* the document or "en".  Does not hold: for a document without an html element
\* _extract_metadata sets no language at all.
C24_LanguageDefaultsToEn ==
    \A k \in 1..Len(scraped_data) :
        /\ "language" \in DOMAIN scraped_data[k].metadata
        /\ scraped_data[k].metadata["language"] = LanguageCalledFor(sources[k].doc)

\* the page record without the items no branch of the chunker is for
WithoutUnclassified(page) ==
    [page EXCEPT !.content = SelectSeq(page.content, Classified)]

\* C25: an item of a content list that is no dict, or has a type outside the kinds of
\* the chunker (the div block of a manual question), gives no chunk and stops nothing:
\* the chunks of a snapshot are the chunks of the same pages without those items, page
\* by page and in order.
C25_UnclassifiedIsOmitted ==
    Indexed =>
        /\ kb_last.chunks
             = process_scraped_data([k \in DOMAIN kb_last.snapshot |->
                                        WithoutUnclassified(kb_last.snapshot[k])])
        /\ \A k \in DOMAIN kb_last.snapshot :
              LET page == kb_last.snapshot[k]
              IN  \A j \in DOMAIN page.content :
                     Classified(page.content[j]) =>
                        Range(TextsOf(ItemChunks(page, page.content[j])))
                            \subseteq Range(TextsOf(kb_last.chunks))

\* a snapshot was indexed in which a block with a chunk comes after an item that is no
\* dict, and another after a block of a type of its own
C25_BlockAfterUnclassified ==
    /\ Indexed
    /\ \E k \in DOMAIN kb_last.snapshot :
          LET page == kb_last.snapshot[k]
          IN  \E i, j \in DOMAIN page.content :
                 /\ i < j
                 /\ ~IsDict(page.content[i])
                 /\ ItemChunks(page, page.content[j]) # <<>>
    /\ \E k \in DOMAIN kb_last.snapshot :
          LET page == kb_last.snapshot[k]
          IN  \E i \in DOMAIN page.content :
                 /\ HasType(page.content[i])
                 /\ page.content[i].type = "div"
                 /\ k < Len(kb_last.snapshot)
    /\ Len(kb_last.chunks) = 8

\* C26: in every reachable state of crawl_site no URL is in url_queue more than once.
C26_QueueHasNoDuplicates ==
    \A i, j \in 1..Len(url_queue) : url_queue[i] = url_queue[j] => i = j

\* the URLs a sitemap response gave to the merge of lines 333-335
Found(response) == parse_sitemap(response, visited_urls)

\* a sitemap was merged and a URL it gave was already waiting in the queue
C26_SitemapUrlAlreadyQueued ==
    /\ last.op = "sitemap"
    /\ Len(url_queue) >= 2
    /\ last.gained < Cardinality(Range(Found(last.response)))

\* C27: in every reachable state of crawl_site no URL of url_queue is in visited_urls,
\* and no target was popped and skipped that was in visited_urls.
C27_QueueAndVisitedDisjoint ==
    /\ Range(url_queue) \cap visited_urls = {}
    /\ last.op = "skip" => last.url \notin visited_urls

\* a sitemap that lists a visited URL was merged while URLs were waiting
C27_SitemapListsVisited ==
    /\ last.op = "sitemap"
    /\ last.response.status_code = 200
    /\ Range(Listed[last.response]) \cap visited_urls # {}
    /\ url_queue # <<>>

\* C28: no exception leaves process_query.  When the search raises, the dict returned
\* has confidence 0.0, no sources and an error; when the search answers and only the
\* call of the model raises, the dict returned has the apology of _generate_response,
\* the sources of the results and the confidence of the results, and no error.
C28_ProcessQueryNeverRaises ==
    kb_last.op = "process_query" =>
        /\ kb_last.left = ""
        /\ kb_last.raised # "" =>
              /\ kb_last.returned.confidence = 0
              /\ kb_last.returned.sources = <<>>
              /\ "error" \in DOMAIN kb_last.returned
        /\ kb_last.raised = "" /\ kb_last.generator = "raises" =>
              /\ kb_last.returned.response
                    = _generate_response(kb_last.query, <<>>, "raises").text
              /\ kb_last.returned.response # Answer
              /\ kb_last.returned.sources = SourcesOf(kb_last.results)
              /\ kb_last.returned.confidence = _calculate_confidence(kb_last.results)
              /\ "error" \notin DOMAIN kb_last.returned

\* the call of the model raised after a search that found records
C28_GeneratorFailedWithSources ==
    /\ kb_last.op = "process_query"
    /\ kb_last.generator = "raises"
    /\ kb_last.results # <<>>
    /\ kb_last.returned.confidence > 0

\* process_query ran while the collection of its handle was gone
C28_SearchRaised ==
    /\ kb_last.op = "process_query"
    /\ kb_last.raised # ""

(***************************************************************************)
(* The serving modules: chatbot_interface/app.py, api/chat_original.py and *)
(* api/chat.py.  Each keeps a module-level agent that the handler of a     *)
(* request creates when it finds None.  The requests of a server that      *)
(* serves each request in a thread of its own (app.run of app.py, line     *)
(* 147) interleave between any two reads or writes of the global.          *)
(***************************************************************************)

Entries == {"app", "chat_original", "chat"}

\* the worker threads that serve requests at the same time
MaxWorkers == 2
Workers == 1..MaxWorkers

\* the requests one worker serves
MaxHandled == 2

\* the message of a request: none, or a question
Messages == {"", "What are the office hours?"}

\* what initialize_agent meets: both constructors return, ArboDentalKnowledgeBase()
\* raises, or the constructor of the agent raises (no API key: arbo_agent.py, line 17)
InitOutcomes == {"ok", "kb_raises", "agent_raises"}

\* a worker between two requests
Idle(handled) == [pc |-> "idle", message |-> "", made |-> None, local |-> None,
                  handled |-> handled]

WebInit ==
    /\ NoCrawler
    /\ NoKnowledgeBase
    /\ NoRebuild
    /\ entry \in Entries
    /\ agent = None
    /\ agents_made = 0
    /\ kbs_made = 0
    /\ requests = [w \in Workers |-> Idle(0)]
    /\ web_last = [op |-> "init"]

\* the response of a request goes out and its worker is free again
Respond(w, status, by) ==
    /\ requests' = [requests EXCEPT ![w] = Idle(requests[w].handled + 1)]
    /\ web_last' = [op |-> "respond", worker |-> w, status |-> status, by |-> by]

\* the step of a request that is not its last
Goto(w, to, what) ==
    /\ requests' = [requests EXCEPT ![w] = [what EXCEPT !.pc = to]]
    /\ web_last' = [op |-> to, worker |-> w]

\* app.py, chat, lines 40-44: a request with no message is answered 400 before the
\* agent is looked at; chat_original.py and chat.py, do_POST, line 33: initialize_agent
\* is called before the body is read
Receive(w) ==
    /\ requests[w].pc = "idle"
    /\ requests[w].handled < MaxHandled
    /\ \E message \in Messages :
          IF entry = "app" /\ message = ""
          THEN Respond(w, 400, None)
          ELSE Goto(w, "test", [requests[w] EXCEPT !.message = message])
    /\ UNCHANGED <<entry, agent, agents_made, kbs_made>>
    /\ UNCHANGED <<crawl_vars, kb_vars, rebuild_vars>>

\* app.py, line 47, chat_original.py, line 19, chat.py, line 143: if agent is None
IsNone(global) == global = None

\* the test of the global by a request
TestNone(w) ==
    /\ requests[w].pc = "test"
    /\ Goto(w, IF IsNone(agent) THEN "construct"
               ELSE IF entry = "app" THEN "process" ELSE "check",
            requests[w])
    /\ UNCHANGED <<entry, agent, agents_made, kbs_made>>
    /\ UNCHANGED <<crawl_vars, kb_vars, rebuild_vars>>

\* app.py, lines 18-24, chat_original.py, lines 20-25, chat.py, lines 144-148: the
\* constructors run; chat.py has no knowledge-base client
Construct(w) ==
    /\ requests[w].pc = "construct"
    /\ \E outcome \in InitOutcomes :
          /\ entry = "chat" => outcome # "kb_raises"
          /\ kbs_made' = IF entry # "chat" /\ outcome # "kb_raises" THEN kbs_made + 1
                         ELSE kbs_made
          /\ agents_made' = IF outcome = "ok" THEN agents_made + 1 ELSE agents_made
          /\ Goto(w, "assign",
                  [requests[w] EXCEPT !.made = IF outcome = "ok" THEN agents_made + 1
                                                ELSE None])
    /\ UNCHANGED <<entry, agent>>
    /\ UNCHANGED <<crawl_vars, kb_vars, rebuild_vars>>

\* app.py, line 48: agent = initialize_agent(); chat_original.py, lines 22 and 25,
\* chat.py, lines 145 and 148: agent = ArboDentalAgent(kb), or agent = None in the
\* except branch
Assign(w) ==
    /\ requests[w].pc = "assign"
    /\ agent' = requests[w].made
    /\ Goto(w, "check", requests[w])
    /\ UNCHANGED <<entry, agents_made, kbs_made>>
    /\ UNCHANGED <<crawl_vars, kb_vars, rebuild_vars>>

\* app.py, lines 49-50: if agent is None, 500; chat_original.py, lines 26 and 33-36,
\* 38-46: return agent, the 500 for None, then the 400 for no message
CheckAgent(w) ==
    /\ requests[w].pc = "check"
    /\ IF agent = None THEN Respond(w, 500, None)
       ELSE IF entry # "app" /\ requests[w].message = "" THEN Respond(w, 400, agent)
       ELSE Goto(w, "process", [requests[w] EXCEPT !.local = agent])
    /\ UNCHANGED <<entry, agent, agents_made, kbs_made>>
    /\ UNCHANGED <<crawl_vars, kb_vars, rebuild_vars>>

\* app.py, line 53: agent.process_query on the global as it is now, and the 500 of
\* the except branch when it is None (lines 63-64); chat_original.py, line 49:
\* process_query on the local of do_POST
ProcessRequest(w) ==
    /\ requests[w].pc = "process"
    /\ IF entry = "app"
       THEN (IF agent = None THEN Respond(w, 500, None) ELSE Respond(w, 200, agent))
       ELSE Respond(w, 200, requests[w].local)
    /\ UNCHANGED <<entry, agent, agents_made, kbs_made>>
    /\ UNCHANGED <<crawl_vars, kb_vars, rebuild_vars>>

WebNext ==
    \E w \in Workers :
        \/ Receive(w)
        \/ TestNone(w)
        \/ Construct(w)
        \/ Assign(w)
        \/ CheckAgent(w)
        \/ ProcessRequest(w)

WebSpec == WebInit /\ [][WebNext]_vars

\* C29: the module-level agent is a singleton created on demand: at most one agent is
\* ever constructed, and once the global refers to an agent it is never made to refer
\* to another one or to None, also when requests are served at the same time.  Does
\* not hold: two requests that both find None both construct, and the later
\* assignment replaces the agent of the earlier one, by None if its constructor raised.
C29_LazySingleton ==
    /\ [](agents_made <= 1)
    /\ [][agent # None => agent' = agent]_vars

(***************************************************************************)
(* rebuild_knowledge_base.py: main runs the crawler, rebuilds the          *)
(* knowledge base from a JSON file and tries it with test queries.         *)
(***************************************************************************)

\* enhanced_crawler.py, save_data, lines 345-348: os.path.join('data', filename)
SavedPath == "data/arbo_dental_data_comprehensive.json"

\* line 43
FallbackPath == "data/arbo_dental_data.json"

\* calls of main
MaxRebuilds == 2

\* line 80: n_results=2
RebuildResults == 2

\* what crawl_site returns: snapshots of crawled pages
CrawledSnapshots == {Snapshot(SnapshotPages, places) : places \in {<<>>, <<2>>, <<1, 3>>}}

\* what the fallback file holds, where there is one: an earlier snapshot, which may
\* have manual pages merged into it
FallbackSnapshots == {Snapshot(SnapshotPages, places) : places \in {<<2>>, <<4, 5, 1>>}}

\* step 1, lines 19-43: all of it returns, crawl_site (or the import, or the
\* constructor) raises, save_data raises, or a statement after save_data raises
CrawlOutcomes == {"ok", "crawl_raises", "save_raises", "summary_raises"}

\* line 27 was reached and save_data wrote its file
Saved(outcome) == outcome \in {"ok", "summary_raises"}

\* step 1 without the assignment of line 43
DataFileNoFallback(outcome, bound) == IF Saved(outcome) THEN SavedPath ELSE bound

\* lines 27 and 43: data_file after step 1
DataFileAfter(outcome, bound) == IF outcome = "ok" THEN SavedPath ELSE FallbackPath

\* step 3, lines 69-91: the searches return, or one of them raises
TestOutcomes == {"ok", "raises"}

RebuildInit ==
    /\ NoCrawler
    /\ NoKnowledgeBase
    /\ NoWeb
    /\ rb_pc = "ready"
    /\ data_file = Unbound
    /\ files \in {<<>>} \cup {Bind(<<>>, FallbackPath, snapshot) : snapshot \in FallbackSnapshots}
    /\ rb_runs = 0
    /\ rb_log = <<>>

\* main is called: step 1, lines 15-43
RunCrawler ==
    /\ rb_pc \in {"ready", "returned"}
    /\ rb_runs < MaxRebuilds
    /\ \E outcome \in CrawlOutcomes, snapshot \in CrawledSnapshots :
          /\ files' = IF Saved(outcome) THEN Bind(files, SavedPath, snapshot) ELSE files
          /\ data_file' = DataFileAfter(outcome, Unbound)
          /\ rb_log' = <<[step |-> "crawl", raised |-> outcome # "ok",
                          saved |-> IF Saved(outcome) THEN <<snapshot>> ELSE <<>>]>>
    /\ rb_pc' = "step 2"
    /\ rb_runs' = rb_runs + 1
    /\ UNCHANGED <<crawl_vars, kb_vars, web_vars>>

\* lines 61-63: the except branch of step 2
ReturnFalse(entry_of_step) ==
    /\ rb_log' = rb_log \o <<entry_of_step, [step |-> "return", value |-> FALSE]>>
    /\ rb_pc' = "returned"

\* step 2, lines 45-63: build_knowledge_base(data_file) of knowledge_base.py, lines
\* 167-186, whose process_scraped_data opens the file (lines 23-24), and
\* get_collection_info; what is raised ends main with False
RebuildKnowledgeBase ==
    /\ rb_pc = "step 2"
    /\ IF data_file \notin DOMAIN files
       THEN /\ ReturnFalse([step |-> "index", file |-> data_file, opened |-> FALSE,
                            pages |-> <<>>, raised |-> TRUE])
            /\ UNCHANGED kb_vars
       ELSE \E seed \in HashSeeds, outcome \in Outcomes :
            \E r \in {add_to_knowledge_base(get_or_create_collection(store), "live", seed,
                                            ChunksOf[files[data_file]], outcome)} :
               /\ store' = r.store
               /\ hash_seed' = seed
               /\ handle' = "live"
               /\ index_calls' = index_calls + 1
               /\ kb_last' = IndexReport("build", files[data_file], store, r)
               /\ IF BuiltSuccessfully(r.raised)
                  THEN /\ rb_log' = Append(rb_log,
                                           [step |-> "index", file |-> data_file,
                                            opened |-> TRUE, pages |-> files[data_file],
                                            raised |-> FALSE,
                                            total_chunks |-> count(r.store)])
                       /\ rb_pc' = "step 3"
                  ELSE ReturnFalse([step |-> "index", file |-> data_file, opened |-> TRUE,
                                    pages |-> files[data_file], raised |-> TRUE])
    /\ UNCHANGED <<data_file, files, rb_runs>>
    /\ UNCHANGED <<crawl_vars, web_vars>>

\* step 3, lines 65-91: the test queries, and the except branch that only prints
TestKnowledgeBase ==
    /\ rb_pc = "step 3"
    /\ \E outcome \in TestOutcomes :
          rb_log' = Append(rb_log,
                           [step |-> "test", raised |-> outcome = "raises",
                            found |-> IF outcome = "raises" THEN <<>>
                                      ELSE [q \in Queries |->
                                              Len(search(store, handle, q,
                                                         RebuildResults).results)]])
    /\ rb_pc' = "summary"
    /\ UNCHANGED <<data_file, files, rb_runs>>
    /\ UNCHANGED <<crawl_vars, kb_vars, web_vars>>

\* lines 93-106: the summary is printed and main returns True
ReturnTrue ==
    /\ rb_pc = "summary"
    /\ rb_log' = rb_log \o <<[step |-> "summary", file |-> data_file,
                              total_chunks |-> rb_log[2].total_chunks],
                             [step |-> "return", value |-> TRUE]>>
    /\ rb_pc' = "returned"
    /\ UNCHANGED <<data_file, files, rb_runs>>
    /\ UNCHANGED <<crawl_vars, kb_vars, web_vars>>

RebuildNext == RunCrawler \/ RebuildKnowledgeBase \/ TestKnowledgeBase \/ ReturnTrue

RebuildSpec == RebuildInit /\ [][RebuildNext]_vars

\* the steps of the current call of main, by name
StepsRun == [k \in 1..Len(rb_log) |-> rb_log[k].step]

\* what main returned
Returned == rb_log[Len(rb_log)].value

\* C30: in main the indexing step runs after the crawl step and only then, on the file
\* save_data wrote (with the pages the crawler saved) when step 1 raised nothing and on
\* data/arbo_dental_data.json when it raised; main returns False exactly when the
\* indexing step raised, and then neither the test queries nor the summary ran; when
\* it returns True they ran, whether the test queries raised or not.
C30_RebuildOrder ==
    /\ Len(rb_log) >= 1 => rb_log[1].step = "crawl"
    /\ Len(rb_log) >= 2 =>
          /\ rb_log[2].step = "index"
          /\ rb_log[2].file = (IF rb_log[1].raised THEN FallbackPath ELSE SavedPath)
          /\ ~rb_log[1].raised => rb_log[2].opened /\ <<rb_log[2].pages>> = rb_log[1].saved
    /\ \A k \in 1..Len(rb_log) : rb_log[k].step = "index" => k = 2
    /\ rb_pc = "returned" =>
          /\ Len(rb_log) >= 3
          /\ rb_log[Len(rb_log)].step = "return"
          /\ Returned = FALSE <=> rb_log[2].raised
          /\ Returned = FALSE => StepsRun = <<"crawl", "index", "return">>
          /\ Returned = TRUE => StepsRun = <<"crawl", "index", "test", "summary", "return">>

\* main returned True after step 1 raised and the test queries raised, having indexed
\* the fallback file
C30_TrueAfterFallbackAndFailedTest ==
    /\ rb_pc = "returned"
    /\ Returned = TRUE
    /\ rb_log[1].raised
    /\ rb_log[2].file = FallbackPath
    /\ rb_log[2].total_chunks > 0
    /\ rb_log[3].raised

\* main returned False: the fallback file was not there
C30_FalseWithoutFallbackFile ==
    /\ rb_pc = "returned"
    /\ Returned = FALSE
    /\ ~rb_log[2].opened

=============================================================================
